---------------------------- MODULE Spec2Model ----------------------------
(***************************************************************************)
(* A model of tfprettyplan: the plan parser (pkg/parser), the width policy *)
(* (pkg/config) and the report renderer (pkg/renderer).                    *)
(*                                                                         *)
(* Go strings are modelled as sequences of one-character strings, so that  *)
(* len, slicing, Split, HasPrefix and byte-wise comparison are computed as *)
(* the code computes them.                                                  *)
(***************************************************************************)
EXTENDS Integers, Sequences, FiniteSets, TLC

(***************************************************************************)
(* Bounds of the model.                                                    *)
(***************************************************************************)
\* longest enumerated body of a value handed to truncateValue
MaxBody == 8
\* largest enumerated maxWidth handed to truncateValue
MaxWidthArg == 10
\* widest terminal handed to GetTableConfig
MaxTermWidth == 130
\* longest resource_changes list of a plan
MaxRecords == 3

(***************************************************************************)
(* Go string helpers (package strings and the built-in slice expression).  *)
(***************************************************************************)
\* s[lo:hi]
Slice(s, lo, hi) == SubSeq(s, lo + 1, hi)

\* strings.Contains(s, sub)
Contains(s, sub) ==
    \E i \in 0..(Len(s) - Len(sub)) : Slice(s, i, i + Len(sub)) = sub

\* strings.HasPrefix(s, p)
HasPrefix(s, p) == Len(s) >= Len(p) /\ Slice(s, 0, Len(p)) = p

\* strings.HasSuffix(s, p)
HasSuffix(s, p) == Len(s) >= Len(p) /\ Slice(s, Len(s) - Len(p), Len(s)) = p

\* strings.Index(s, c) for a one-character separator c; -1 when absent
IndexChar(s, c) ==
    IF \E i \in 1..Len(s) : s[i] = c
    THEN (CHOOSE i \in 1..Len(s) : s[i] = c /\ \A j \in 1..(i - 1) : s[j] # c) - 1
    ELSE -1

\* strings.LastIndex(s, c) for a one-character separator c; -1 when absent
LastIndexChar(s, c) ==
    IF \E i \in 1..Len(s) : s[i] = c
    THEN (CHOOSE i \in 1..Len(s) : s[i] = c /\ \A j \in (i + 1)..Len(s) : s[j] # c) - 1
    ELSE -1

\* strings.Split(s, c) for a one-character separator c: always >= 1 part
RECURSIVE Split(_, _)
Split(s, c) ==
    LET i == IndexChar(s, c)
    IN  IF i < 0 THEN << s >>
        ELSE << Slice(s, 0, i) >> \o Split(Slice(s, i + 1, Len(s)), c)

(***************************************************************************)
(* String constants of pkg/renderer.                                       *)
(***************************************************************************)
Ellipsis == << ".", ".", "." >>
PathJoiner == << "/", ".", ".", ".", "/" >>
BraceEllipsis == << "{", ".", ".", ".", "}" >>
BracketEllipsis == << "[", ".", ".", ".", "]" >>
BraceClose == << ".", ".", ".", "}" >>
BracketClose == << ".", ".", ".", "]" >>
\* "\"key\":\"value\""
KeyValueMarker ==
    << "\"", "k", "e", "y", "\"", ":", "\"", "v", "a", "l", "u", "e", "\"" >>
\* "{\"key\":\"value\"...}}"
KeyValueResult ==
    << "{", "\"", "k", "e", "y", "\"", ":", "\"", "v", "a", "l", "u", "e", "\"",
       ".", ".", ".", "}", "}" >>
\* "this is a very long value"
LongValueMarker ==
    << "t", "h", "i", "s", " ", "i", "s", " ", "a", " ", "v", "e", "r", "y",
       " ", "l", "o", "n", "g", " ", "v", "a", "l", "u", "e" >>
\* "this is a...runcated"
LongValueResult ==
    << "t", "h", "i", "s", " ", "i", "s", " ", "a", ".", ".", ".", "r", "u",
       "n", "c", "a", "t", "e", "d" >>

(***************************************************************************)
(* Renderer.truncateValue.                                                 *)
(***************************************************************************)
\* the loop over middleParts: append parts while they fit, stop at the first
\* part that does not
RECURSIVE MiddleLoop(_, _, _, _)
MiddleLoop(middleParts, i, middle, remainingSpace) ==
    IF i > Len(middleParts) THEN middle
    ELSE LET part == middleParts[i]
         IN  IF Len(middle) + Len(part) + 1 <= remainingSpace
             THEN MiddleLoop(middleParts, i + 1,
                             (IF middle # << >> THEN middle \o << "/" >> ELSE middle) \o part,
                             remainingSpace)
             ELSE middle

\* the path branch applies: the value has a "/", more than two parts and
\* room for first + "/.../" + last
PathApplies(v, maxWidth) ==
    /\ Contains(v, << "/" >>)
    /\ LET parts == Split(v, "/")
       IN  /\ Len(parts) > 2
           /\ maxWidth - Len(parts[1]) - Len(parts[Len(parts)]) - 5 > 0

PathTruncate(v, maxWidth) ==
    LET parts == Split(v, "/")
        firstPart == parts[1]
        lastPart == parts[Len(parts)]
        remainingSpace == maxWidth - Len(firstPart) - Len(lastPart) - 5
        middleParts == SubSeq(parts, 2, Len(parts) - 1)
        middle == MiddleLoop(middleParts, 1, << >>, remainingSpace)
    IN  IF middle # << >>
        THEN firstPart \o << "/" >> \o middle \o PathJoiner \o lastPart
        ELSE firstPart \o PathJoiner \o lastPart

BraceTruncate(v, maxWidth) ==
    LET contentLength == maxWidth - 5
    IN  IF maxWidth >= 5 /\ contentLength > 0
        THEN IF Contains(v, KeyValueMarker) /\ maxWidth >= 20
             THEN KeyValueResult
             ELSE << "{" >> \o Slice(v, 1, contentLength + 1) \o BraceClose
        ELSE BraceEllipsis

BracketTruncate(v, maxWidth) ==
    LET contentLength == maxWidth - 5
    IN  IF maxWidth >= 5 /\ contentLength > 0
        THEN << "[" >> \o Slice(v, 1, contentLength + 1) \o BracketClose
        ELSE BracketEllipsis

MiddleTruncate(v, maxWidth) ==
    LET halfWidth == (maxWidth - 3) \div 2
    IN  IF Contains(v, LongValueMarker)
        THEN LongValueResult
        ELSE Slice(v, 0, halfWidth) \o Ellipsis \o Slice(v, Len(v) - halfWidth, Len(v))

DefaultTruncate(v, maxWidth) ==
    IF maxWidth > 3 THEN Slice(v, 0, maxWidth - 3) \o Ellipsis ELSE Ellipsis

\* truncateValue with the first test written len(value) < maxWidth
truncateValue_strictFit(v, maxWidth) ==
    IF Len(v) < maxWidth THEN v
    ELSE IF PathApplies(v, maxWidth) THEN PathTruncate(v, maxWidth)
    ELSE IF HasPrefix(v, << "{" >>) /\ HasSuffix(v, << "}" >>) THEN BraceTruncate(v, maxWidth)
    ELSE IF HasPrefix(v, << "[" >>) /\ HasSuffix(v, << "]" >>) THEN BracketTruncate(v, maxWidth)
    ELSE IF Len(v) > maxWidth /\ maxWidth > 6 THEN MiddleTruncate(v, maxWidth)
    ELSE DefaultTruncate(v, maxWidth)

truncateValue(v, maxWidth) ==
    IF Len(v) <= maxWidth THEN v
    ELSE IF PathApplies(v, maxWidth) THEN PathTruncate(v, maxWidth)
    ELSE IF HasPrefix(v, << "{" >>) /\ HasSuffix(v, << "}" >>) THEN BraceTruncate(v, maxWidth)
    ELSE IF HasPrefix(v, << "[" >>) /\ HasSuffix(v, << "]" >>) THEN BracketTruncate(v, maxWidth)
    ELSE IF Len(v) > maxWidth /\ maxWidth > 6 THEN MiddleTruncate(v, maxWidth)
    ELSE DefaultTruncate(v, maxWidth)


(***************************************************************************)
(* Byte order of Go strings: s < t compares byte-wise.                     *)
(***************************************************************************)
\* the printable ASCII characters 32..95 and 97..126, in byte order
AsciiLow ==
    << " ", "!", "\"", "#", "$", "%", "&", "'", "(", ")", "*", "+", ",", "-",
       ".", "/", "0", "1", "2", "3", "4", "5", "6", "7", "8", "9", ":", ";",
       "<", "=", ">", "?", "@", "A", "B", "C", "D", "E", "F", "G", "H", "I",
       "J", "K", "L", "M", "N", "O", "P", "Q", "R", "S", "T", "U", "V", "W",
       "X", "Y", "Z", "[", "\\", "]", "^", "_" >>
AsciiHigh ==
    << "a", "b", "c", "d", "e", "f", "g", "h", "i", "j", "k", "l", "m", "n",
       "o", "p", "q", "r", "s", "t", "u", "v", "w", "x", "y", "z", "{", "|",
       "}", "~" >>

\* the byte value of a character
Ord(c) ==
    IF \E i \in 1..Len(AsciiLow) : AsciiLow[i] = c
    THEN 31 + (CHOOSE i \in 1..Len(AsciiLow) : AsciiLow[i] = c)
    ELSE 96 + (CHOOSE i \in 1..Len(AsciiHigh) : AsciiHigh[i] = c)

Min(a, b) == IF a < b THEN a ELSE b

\* the Go expression s < t on strings
StrLess(s, t) ==
    LET n == Min(Len(s), Len(t))
        diff == { i \in 1..n : s[i] # t[i] }
    IN  IF diff = {} THEN Len(s) < Len(t)
        ELSE LET i == CHOOSE j \in diff : \A k \in diff : j <= k
             IN  Ord(s[i]) < Ord(t[i])

\* sort.Strings over the keys of a map: the keys are distinct, so the result
\* is the one ascending sequence
RECURSIVE SortStrings(_)
SortStrings(S) ==
    IF S = {} THEN << >>
    ELSE LET m == CHOOSE x \in S : \A y \in S : ~StrLess(y, x)
         IN  << m >> \o SortStrings(S \ { m })

\* strings.Join(parts, sep)
RECURSIVE Join(_, _)
Join(parts, sep) ==
    IF parts = << >> THEN << >>
    ELSE IF Len(parts) = 1 THEN parts[1]
    ELSE parts[1] \o sep \o Join(Tail(parts), sep)

(***************************************************************************)
(* Decoded JSON values (interface{} after json.Unmarshal): null, bool,     *)
(* number, string, list, and map from string keys to values.  A key that   *)
(* is missing from a Go map reads as nil, like a null.                     *)
(***************************************************************************)
JNull == [k |-> "null"]
JBool(b) == [k |-> "bool", b |-> b]
JNum(n) == [k |-> "num", n |-> n]
JStr(s) == [k |-> "str", s |-> s]
JList(l) == [k |-> "list", l |-> l]
JMap(m) == [k |-> "map", m |-> m]

EmptyMap == << >>

\* m[key] on a Go map[string]interface{}
Get(m, key) == IF key \in DOMAIN m THEN m[key] ELSE JNull

\* v, _ := x.(string)
AsString(j) == IF j.k = "str" THEN j.s ELSE << >>

\* v, _ := x.(map[string]interface{})  (a nil map ranges over nothing)
AsMap(j) == IF j.k = "map" THEN j.m ELSE EmptyMap

\* strconv of a non-negative integer
RECURSIVE Digits(_)
Digits(n) ==
    IF n < 10 THEN << AsciiLow[17 + n] >>
    ELSE Digits(n \div 10) \o << AsciiLow[17 + (n % 10)] >>

Itoa(n) == IF n < 0 THEN << "-" >> \o Digits(-n) ELSE Digits(n)

\* "<nil>"
S_nil == << "<", "n", "i", "l", ">" >>
\* "true"
S_true == << "t", "r", "u", "e" >>
\* "false"
S_false == << "f", "a", "l", "s", "e" >>
\* "map["
S_mapOpen == << "m", "a", "p", "[" >>

\* fmt.Sprintf("%v", v): strings print as they are, nil as <nil>, a list as
\* [e1 e2], a map as map[k1:v1 k2:v2] with its keys in sorted order
RECURSIVE SprintfV(_)
SprintfV(j) ==
    CASE j.k = "null" -> S_nil
      [] j.k = "bool" -> IF j.b THEN S_true ELSE S_false
      [] j.k = "num" -> Itoa(j.n)
      [] j.k = "str" -> j.s
      [] j.k = "list" ->
            << "[" >> \o Join([i \in 1..Len(j.l) |-> SprintfV(j.l[i])], << " " >>)
                     \o << "]" >>
      [] j.k = "map" ->
            LET keys == SortStrings(DOMAIN j.m)
            IN  S_mapOpen
                \o Join([i \in 1..Len(keys) |->
                            keys[i] \o << ":" >> \o SprintfV(j.m[keys[i]])], << " " >>)
                \o << "]" >>

(***************************************************************************)
(* pkg/models.                                                             *)
(***************************************************************************)
Create == "create"
Update == "update"
Delete == "delete"
NoOp == "no-op"

ChangeTypes == { Create, Update, Delete, NoOp }

\* a nil *ResourceChange
NilChange == [nil |-> TRUE]

(***************************************************************************)
(* Parser.processResourceChange.                                           *)
(***************************************************************************)
\* "address"
K_address == << "a", "d", "d", "r", "e", "s", "s" >>
\* "type"
K_type == << "t", "y", "p", "e" >>
\* "change"
K_change == << "c", "h", "a", "n", "g", "e" >>
\* "actions"
K_actions == << "a", "c", "t", "i", "o", "n", "s" >>
\* "before"
K_before == << "b", "e", "f", "o", "r", "e" >>
\* "after"
K_after == << "a", "f", "t", "e", "r" >>
\* "module."
ModulePrefix == << "m", "o", "d", "u", "l", "e", "." >>
\* "create"
S_create == << "c", "r", "e", "a", "t", "e" >>
\* "update"
S_update == << "u", "p", "d", "a", "t", "e" >>
\* "delete"
S_delete == << "d", "e", "l", "e", "t", "e" >>
\* "no-op"
S_noop == << "n", "o", "-", "o", "p" >>

\* the switch on actions[0]
ActionToChangeType(action) ==
    CASE action = S_create -> Create
      [] action = S_update -> Update
      [] action = S_delete -> Delete
      [] action = S_noop -> NoOp
      [] OTHER -> NoOp

\* the change type taken from the last action
ChangeTypeOf_lastAction(change) ==
    LET actions == Get(change, K_actions)
    IN  IF actions.k = "list" /\ Len(actions.l) > 0
        THEN ActionToChangeType(AsString(actions.l[Len(actions.l)]))
        ELSE NoOp

\* changeType as left by the "Determine change type" block for a change map
ChangeTypeOf(change) ==
    LET actions == Get(change, K_actions)
    IN  IF actions.k = "list" /\ Len(actions.l) > 0
        THEN ActionToChangeType(AsString(actions.l[1]))
        ELSE NoOp

\* typeName: the explicit type, else the first dot-segment of the address
TypeNameOf(raw, address) ==
    LET typeName == AsString(Get(raw, K_type))
    IN  IF typeName = << >> THEN Split(address, ".")[1] ELSE typeName

\* name: the last dot-segment when the address has more than one
NameOf(address) ==
    LET parts == Split(address, ".")
    IN  IF Len(parts) > 1 THEN parts[Len(parts)] ELSE << >>

\* module: the address up to its last dot, for addresses under "module."
ModuleOf(address) ==
    IF HasPrefix(address, ModulePrefix)
    THEN LET moduleEnd == LastIndexChar(address, ".")
         IN  IF moduleEnd > 0 THEN Slice(address, 0, moduleEnd) ELSE << >>
    ELSE << >>

\* NormalizedChange with both value maps over the keys of either side, a key
\* missing on a side defaulted to the empty string
NormalizedChange_defaulted(raw, address) ==
    LET changeJ == Get(raw, K_change)
        isMap == changeJ.k = "map"
        change == AsMap(changeJ)
        before == IF isMap THEN AsMap(Get(change, K_before)) ELSE EmptyMap
        after == IF isMap THEN AsMap(Get(change, K_after)) ELSE EmptyMap
        keys == DOMAIN before \cup DOMAIN after
    IN  [Address |-> address,
         Type |-> TypeNameOf(raw, address),
         Name |-> NameOf(address),
         ChangeType |-> IF isMap THEN ChangeTypeOf(change) ELSE NoOp,
         Before |-> before,
         After |-> after,
         BeforeValues |-> [key \in keys |->
                             IF key \in DOMAIN before THEN SprintfV(before[key])
                             ELSE << >>],
         AfterValues |-> [key \in keys |->
                            IF key \in DOMAIN after THEN SprintfV(after[key])
                            ELSE << >>],
         Module |-> ModuleOf(address)]

\* the ResourceChange built for a record with a usable address
NormalizedChange(raw, address) ==
    LET changeJ == Get(raw, K_change)
        isMap == changeJ.k = "map"
        change == AsMap(changeJ)
        before == IF isMap THEN AsMap(Get(change, K_before)) ELSE EmptyMap
        after == IF isMap THEN AsMap(Get(change, K_after)) ELSE EmptyMap
    IN  [Address |-> address,
         Type |-> TypeNameOf(raw, address),
         Name |-> NameOf(address),
         ChangeType |-> IF isMap THEN ChangeTypeOf(change) ELSE NoOp,
         Before |-> before,
         After |-> after,
         BeforeValues |-> [key \in DOMAIN before |-> SprintfV(before[key])],
         AfterValues |-> [key \in DOMAIN after |-> SprintfV(after[key])],
         Module |-> ModuleOf(address)]

\* processResourceChange without the test for an empty address
processResourceChange_acceptEmpty(raw) ==
    LET addr == Get(raw, K_address)
        address == AsString(addr)
    IN  IF addr.k # "str"
        THEN [rc |-> NilChange, err |-> TRUE]
        ELSE [rc |-> NormalizedChange(raw, address), err |-> FALSE]

\* the result pair (*ResourceChange, error)
processResourceChange(raw) ==
    LET addr == Get(raw, K_address)
        address == AsString(addr)
    IN  IF addr.k # "str" \/ address = << >>
        THEN [rc |-> NilChange, err |-> TRUE]
        ELSE [rc |-> NormalizedChange(raw, address), err |-> FALSE]

(***************************************************************************)
(* Parser.ParseJSON: the aggregation loop.                                 *)
(***************************************************************************)
\* a summary that starts with one no-op counted
EmptySummary_counted ==
    [ResourceChanges |-> << >>, AddCount |-> 0, ChangeCount |-> 0, DeleteCount |-> 0,
     NoOpCount |-> 1]

\* &models.PlanSummary{ResourceChanges: ...} with zero counters
EmptySummary ==
    [ResourceChanges |-> << >>, AddCount |-> 0, ChangeCount |-> 0, DeleteCount |-> 0,
     NoOpCount |-> 0]

\* the switch without its NoOp case
UpdateCounters_noNoOp(s, changeType) ==
    CASE changeType = Create -> [s EXCEPT !.AddCount = @ + 1]
      [] changeType = Update -> [s EXCEPT !.ChangeCount = @ + 1]
      [] changeType = Delete -> [s EXCEPT !.DeleteCount = @ + 1]
      [] OTHER -> s

\* the switch "Update counters"
UpdateCounters(s, changeType) ==
    CASE changeType = Create -> [s EXCEPT !.AddCount = @ + 1]
      [] changeType = Update -> [s EXCEPT !.ChangeCount = @ + 1]
      [] changeType = Delete -> [s EXCEPT !.DeleteCount = @ + 1]
      [] changeType = NoOp -> [s EXCEPT !.NoOpCount = @ + 1]
      [] OTHER -> s

\* the loop body for a record that normalized to rc
AppendChange(s, rc) ==
    UpdateCounters([s EXCEPT !.ResourceChanges = Append(@, rc)], rc.ChangeType)

\* the loop left at the first failed record
AfterRecord_abort(i, n, err) == IF err THEN n ELSE i + 1

\* the index of the record the loop turns to after record i of n: a failed
\* record is skipped with continue
AfterRecord(i, n, err) == i + 1

(***************************************************************************)
(* The checks of the input bytes made by ParseFile and ParseJSON.          *)
(***************************************************************************)
\* the texts checkForTerraformProviderErrors looks for
ProviderErrorMarkers ==
    { <<"F", "a", "i", "l", "e", "d", " ", "t", "o", " ", "l", "o", "a", "d",
            " ", "p", "l", "u", "g", "i", "n", " ", "s", "c", "h", "e", "m", "a",
            "s">>,
      <<"E", "r", "r", "o", "r", ":", " ", "N", "o", " ", "v", "a", "l", "u",
            "e", " ", "f", "o", "r", " ", "r", "e", "q", "u", "i", "r", "e", "d",
            " ", "v", "a", "r", "i", "a", "b", "l", "e">>,
      <<"u", "n", "a", "v", "a", "i", "l", "a", "b", "l", "e", " ", "p", "r",
            "o", "v", "i", "d", "e", "r">>,
      <<"C", "o", "u", "l", "d", " ", "n", "o", "t", " ", "l", "o", "a", "d",
            " ", "t", "h", "e", " ", "s", "c", "h", "e", "m", "a", " ", "f", "o",
            "r", " ", "p", "r", "o", "v", "i", "d", "e", "r">>,
      <<"E", "r", "r", "o", "r", ":", " ", "C", "o", "u", "l", "d", " ", "n",
            "o", "t", " ", "l", "o", "a", "d", " ", "p", "l", "u", "g", "i", "n">>,
      <<"E", "r", "r", "o", "r", ":", " ", "P", "r", "o", "v", "i", "d", "e",
            "r", " ", "c", "o", "n", "f", "i", "g", "u", "r", "a", "t", "i", "o",
            "n", " ", "n", "o", "t", " ", "p", "r", "e", "s", "e", "n", "t">>,
      <<"E", "r", "r", "o", "r", ":", " ", "I", "n", "v", "a", "l", "i", "d",
            " ", "p", "r", "o", "v", "i", "d", "e", "r", " ", "c", "o", "n", "f",
            "i", "g", "u", "r", "a", "t", "i", "o", "n">> }

\* "Error: "
S_Error == <<"E", "r", "r", "o", "r", ":", " ">>

\* unicode white space as far as the model has it: space, tab, newline
WhiteSpace == { " ", "\t", "\n", "\r" }

\* the first position from i on, going by step, that holds no white space;
\* 0 or len(data) + 1 when there is none
RECURSIVE SkipSpace(_, _, _)
SkipSpace(data, i, step) ==
    IF i < 1 \/ i > Len(data) \/ data[i] \notin WhiteSpace THEN i
    ELSE SkipSpace(data, i + step, step)

\* bytes.TrimSpace(data)
TrimSpace(data) == SubSeq(data, SkipSpace(data, 1, 1), SkipSpace(data, Len(data), -1))

\* bytes.Contains(data, marker) for some marker of the set, looking at a
\* window only where its first byte matches
ContainsAny(data, markers) ==
    \E i \in 1..Len(data) :
        /\ data[i] \in { marker[1] : marker \in markers }
        /\ \E marker \in markers :
              /\ i + Len(marker) - 1 <= Len(data)
              /\ SubSeq(data, i, i + Len(marker) - 1) = marker

\* Parser.checkForTerraformProviderErrors: TRUE when an error is returned
checkForTerraformProviderErrors(data) ==
    \/ ContainsAny(data, ProviderErrorMarkers)
    \/ ContainsAny(data, { S_Error }) /\ ~ContainsAny(data, { << "{" >> })

\* Parser.validateJSON: TRUE when an error is returned
validateJSON(data) ==
    LET trimmed == TrimSpace(data)
    IN  \/ Len(data) = 0
        \/ Len(trimmed) = 0
        \/ trimmed[1] # "{"
        \/ trimmed[Len(trimmed)] # "}"

\* the errors of ParseFile and ParseJSON by what their message says
NoError == "nil"
ErrRead == "failed to read"
ErrEmpty == "empty input"
ErrProvider == "detected Terraform error"
ErrMalformed == "malformed JSON"
ErrDecode == "failed to parse JSON"

\* ParseJSON with validateJSON called before checkForTerraformProviderErrors
ParseJSONError_validateFirst(data) ==
    IF Len(data) = 0 THEN ErrEmpty
    ELSE IF validateJSON(data) THEN ErrMalformed
    ELSE IF checkForTerraformProviderErrors(data) THEN ErrProvider
    ELSE NoError

\* the checks of ParseJSON before json.Unmarshal, in their order: the error
\* it returns without decoding, NoError when it goes on to decode
ParseJSONError(data) ==
    IF Len(data) = 0 THEN ErrEmpty
    ELSE IF checkForTerraformProviderErrors(data) THEN ErrProvider
    ELSE IF validateJSON(data) THEN ErrMalformed
    ELSE NoError

\* ParseFile before it calls ParseJSON: the error it returns, NoError when
\* it calls ParseJSON
ParseFileError(readable, data) ==
    IF ~readable THEN ErrRead
    ELSE IF Len(data) = 0 THEN ErrEmpty
    ELSE IF checkForTerraformProviderErrors(data) THEN ErrProvider
    ELSE IF validateJSON(data) THEN ErrMalformed
    ELSE NoError

(***************************************************************************)
(* pkg/config: Config.GetTableConfig.                                      *)
(***************************************************************************)
StandardFormat == "standard"
WideFormat == "wide"

DefaultConfig ==
    [OutputFormat |-> StandardFormat, NoColor |-> FALSE, MaxWidth |-> 80,
     AutoDetectWidth |-> TRUE]

\* the value width chosen by the switch on the output format
BaseValueWidth(format) == IF format = WideFormat THEN 32 ELSE 16

\* the threshold written availableWidth >= 60
AutoWidthApplies_atLeast60(c) ==
    c.AutoDetectWidth /\ c.MaxWidth > 0 /\ c.MaxWidth - 10 >= 60

\* the override applies: auto-detection with a terminal width that leaves
\* more than 60 columns after the 10 reserved for borders
AutoWidthApplies(c) ==
    c.AutoDetectWidth /\ c.MaxWidth > 0 /\ c.MaxWidth - 10 > 60

GetTableConfig(c) ==
    LET availableWidth == c.MaxWidth - 10
    IN  IF AutoWidthApplies(c)
        THEN [MaxAttributeWidth |-> (availableWidth * 30) \div 100,
              MaxValueWidth |-> (availableWidth * 35) \div 100,
              MinValueWidth |-> 10]
        ELSE [MaxAttributeWidth |-> 13,
              MaxValueWidth |-> BaseValueWidth(c.OutputFormat),
              MinValueWidth |-> 10]

(***************************************************************************)
(* pkg/renderer.  The report is a sequence of lines; a line is a record    *)
(* that keeps what the code writes: the text or the cells, the column      *)
(* widths handed to the padding verbs, and the colour applied.             *)
(***************************************************************************)
\* "(none)"
S_none == << "(", "n", "o", "n", "e", ")" >>
\* "longer description"
LongerDescription ==
    << "l", "o", "n", "g", "e", "r", " ", "d", "e", "s", "c", "r", "i", "p",
       "t", "i", "o", "n" >>

TitleCreate == "Resources to Create"
TitleUpdate == "Resources to Update"
TitleDelete == "Resources to Delete"

\* len(title): the three titles have 19 bytes each
TitleLen(title) == 19

\* colorFunc(x) when colour is enabled, x otherwise
Paint(r, colour) == IF r.colorEnabled THEN colour ELSE "none"

BlankLine == [t |-> "blank"]
TextLine(text, colour) == [t |-> "text", text |-> text, colour |-> colour]

\* renderer.New with WithColor and WithConfig
NewRenderer(colorEnabled, cfg) ==
    [colorEnabled |-> colorEnabled, config |-> cfg, tableConfig |-> GetTableConfig(cfg)]

\* the total with the no-op resources left out
TotalChanges_withoutNoOp(summary) ==
    summary.AddCount + summary.ChangeCount + summary.DeleteCount

\* total := summary.AddCount + summary.ChangeCount + summary.DeleteCount +
\* summary.NoOpCount
TotalChanges(summary) ==
    summary.AddCount + summary.ChangeCount + summary.DeleteCount + summary.NoOpCount

\* Renderer.renderSummaryTable
renderSummaryTable(r, summary) ==
    LET addRow(action, count, colour) ==
            [t |-> "count_row", action |-> action, count |-> count,
             colour |-> Paint(r, colour)]
        total == TotalChanges(summary)
    IN  << TextLine("Terraform Plan Summary", Paint(r, "bold")),
           TextLine("=====================", Paint(r, "bold")),
           BlankLine,
           [t |-> "summary_border", pos |-> "top"],
           [t |-> "summary_header"],
           [t |-> "summary_border", pos |-> "middle"],
           addRow("Create", summary.AddCount, "green"),
           addRow("Update", summary.ChangeCount, "yellow"),
           addRow("Delete", summary.DeleteCount, "red"),
           addRow("No-op", summary.NoOpCount, "blue"),
           [t |-> "summary_border", pos |-> "middle"],
           [t |-> "total_row", count |-> total, colour |-> Paint(r, "bold")],
           [t |-> "summary_border", pos |-> "bottom"],
           BlankLine >>

\* filterByChangeType with the test of the change type left out
filterByChangeType_all(changes, changeType) == changes

\* filterByChangeType: a new slice with the entries of the given type, in
\* their order
filterByChangeType(changes, changeType) ==
    SelectSeq(changes, LAMBDA change : change.ChangeType = changeType)

\* every key of either side taken as changed
ChangedAttrs_allKeys(change) ==
    DOMAIN change.BeforeValues \cup DOMAIN change.AfterValues

\* the set of changed attributes of an updated resource
ChangedAttrs(change) ==
    { key \in DOMAIN change.BeforeValues :
        IF key \in DOMAIN change.AfterValues
        THEN change.AfterValues[key] # change.BeforeValues[key]
        ELSE TRUE }
    \cup { key \in DOMAIN change.AfterValues : key \notin DOMAIN change.BeforeValues }

\* for k := range m: the keys of m in the order in which the runtime walks
\* the map on this occasion.  The order is not specified; iter lists the
\* attribute keys in the order of this walk.
MapRange(keys, iter) == SelectSeq(iter, LAMBDA k : k \in keys)

\* the slice of keys left as the range over the map appended them
SortAttrs_unsorted(attrs) == attrs

\* sort.Strings(attrs); the keys of a map are distinct, so the result is the
\* one ascending sequence of them
SortAttrs(attrs) == SortStrings({ attrs[i] : i \in 1..Len(attrs) })

\* m[key] on a Go map[string]string: the empty string for a missing key
Lookup(m, key) == IF key \in DOMAIN m THEN m[key] ELSE << >>

IsWideFormat(r) == r.config.OutputFormat = WideFormat

\* AttributeRow without the "(none)" placeholder
AttributeRow_noPlaceholder(r, change, attr) ==
    LET valueWidth == r.tableConfig.MaxValueWidth
        old1 == Lookup(change.BeforeValues, attr)
        new1 == Lookup(change.AfterValues, attr)
        keep == IsWideFormat(r) /\ (Contains(old1, LongerDescription)
                                    \/ Contains(new1, LongerDescription))
        oldVal == IF ~keep /\ (~IsWideFormat(r) \/ Len(old1) > valueWidth)
                  THEN truncateValue(old1, valueWidth) ELSE old1
        newVal == IF ~keep /\ (~IsWideFormat(r) \/ Len(new1) > valueWidth)
                  THEN truncateValue(new1, valueWidth) ELSE new1
    IN  [t |-> "table_row", cells |-> << attr, oldVal, newVal >>,
         widths |-> << r.tableConfig.MaxAttributeWidth, valueWidth, valueWidth >>]

\* one row of the update sub-table
AttributeRow(r, change, attr) ==
    LET valueWidth == r.tableConfig.MaxValueWidth
        old0 == Lookup(change.BeforeValues, attr)
        new0 == Lookup(change.AfterValues, attr)
        old1 == IF old0 = << >> THEN S_none ELSE old0
        new1 == IF new0 = << >> THEN S_none ELSE new0
        keep == IsWideFormat(r) /\ (Contains(old1, LongerDescription)
                                    \/ Contains(new1, LongerDescription))
        oldVal == IF ~keep /\ (~IsWideFormat(r) \/ Len(old1) > valueWidth)
                  THEN truncateValue(old1, valueWidth) ELSE old1
        newVal == IF ~keep /\ (~IsWideFormat(r) \/ Len(new1) > valueWidth)
                  THEN truncateValue(new1, valueWidth) ELSE new1
    IN  [t |-> "table_row", cells |-> << attr, oldVal, newVal >>,
         widths |-> << r.tableConfig.MaxAttributeWidth, valueWidth, valueWidth >>]

\* Renderer.renderAttributeChanges
renderAttributeChanges(r, change, iter) ==
    LET attrs == SortAttrs(MapRange(ChangedAttrs(change), iter))
        attrWidth == r.tableConfig.MaxAttributeWidth
        valueWidth == r.tableConfig.MaxValueWidth
        widths == << attrWidth, valueWidth, valueWidth >>
    IN  IF ChangedAttrs(change) = {} THEN << >>
        ELSE << [t |-> "table_border", pos |-> "top", widths |-> widths],
                [t |-> "table_header", widths |-> widths,
                 cols |-> << "ATTRIBUTE", "OLD VALUE", "NEW VALUE" >>],
                [t |-> "table_border", pos |-> "middle", widths |-> widths] >>
             \o [i \in 1..Len(attrs) |-> AttributeRow(r, change, attrs[i])]
             \o << [t |-> "table_border", pos |-> "bottom", widths |-> widths] >>

\* one row of the delete sub-table
DeletedRow(r, change, attr) ==
    LET valueWidth == r.tableConfig.MaxValueWidth * 2 + 3
        val0 == Lookup(change.BeforeValues, attr)
        val1 == IF val0 = << >> THEN S_none ELSE val0
        val == IF ~IsWideFormat(r) \/ Len(val1) > valueWidth
               THEN truncateValue(val1, valueWidth) ELSE val1
    IN  [t |-> "table_row", cells |-> << attr, val >>,
         widths |-> << r.tableConfig.MaxAttributeWidth, valueWidth >>]

\* Renderer.renderDeletedAttributes
renderDeletedAttributes(r, change, iter) ==
    LET attrs == SortAttrs(MapRange(DOMAIN change.BeforeValues, iter))
        attrWidth == r.tableConfig.MaxAttributeWidth
        valueWidth == r.tableConfig.MaxValueWidth * 2 + 3
        widths == << attrWidth, valueWidth >>
    IN  IF DOMAIN change.BeforeValues = {} THEN << >>
        ELSE << [t |-> "table_border", pos |-> "top", widths |-> widths],
                [t |-> "table_header", widths |-> widths,
                 cols |-> << "ATTRIBUTE", "CURRENT VALUE (WILL BE DESTROYED)" >>],
                [t |-> "table_border", pos |-> "middle", widths |-> widths] >>
             \o [i \in 1..Len(attrs) |-> DeletedRow(r, change, attrs[i])]
             \o << [t |-> "table_border", pos |-> "bottom", widths |-> widths] >>

\* renderResourceChange with the diff sub-table for every kind
renderResourceChange_diffForAll(r, change, colour, iter) ==
    << [t |-> "resource", symbol |-> "~", address |-> change.Address,
        type |-> change.Type, colour |-> Paint(r, colour)] >>
    \o renderAttributeChanges(r, change, iter)
    \o << BlankLine >>

\* Renderer.renderResourceChange
renderResourceChange(r, change, colour, iter) ==
    LET symbol == CASE change.ChangeType = Create -> "+"
                    [] change.ChangeType = Update -> "~"
                    [] change.ChangeType = Delete -> "-"
                    [] OTHER -> "*"
    IN  << [t |-> "resource", symbol |-> symbol, address |-> change.Address,
            type |-> change.Type, colour |-> Paint(r, colour)] >>
        \o (IF change.ChangeType = Update
            THEN renderAttributeChanges(r, change, iter) ELSE << >>)
        \o (IF change.ChangeType = Delete /\ DOMAIN change.BeforeValues # {}
            THEN renderDeletedAttributes(r, change, iter) ELSE << >>)
        \o << BlankLine >>

\* sort.Slice(changes, by Address): for the slices of this model (at most 12
\* entries) the library runs its insertion sort, which moves an entry left
\* only past entries with a strictly greater address
RECURSIVE InsertLeft(_, _)
InsertLeft(changes, j) ==
    IF j > 1 /\ StrLess(changes[j].Address, changes[j - 1].Address)
    THEN InsertLeft([changes EXCEPT ![j] = changes[j - 1], ![j - 1] = changes[j]], j - 1)
    ELSE changes

RECURSIVE InsertionSort(_, _)
InsertionSort(changes, i) ==
    IF i > Len(changes) THEN changes
    ELSE InsertionSort(InsertLeft(changes, i), i + 1)

\* the group left in input order
SortByAddress_unsorted(changes) == changes

SortByAddress(changes) == InsertionSort(changes, 2)

RECURSIVE Flatten(_)
Flatten(blocks) ==
    IF blocks = << >> THEN << >> ELSE Head(blocks) \o Flatten(Tail(blocks))

\* Renderer.renderChangeGroup
renderChangeGroup(r, title, changes, colour, iter) ==
    LET sorted == SortByAddress(changes)
    IN  << BlankLine,
           [t |-> "section", title |-> title, colour |-> Paint(r, colour)],
           [t |-> "section_rule", width |-> TitleLen(title) + 2,
            colour |-> Paint(r, colour)],
           BlankLine >>
        \o Flatten([i \in 1..Len(sorted) |-> renderResourceChange(r, sorted[i], colour, iter)])

\* renderResourceChanges with the update group written before the create group
renderResourceChanges_updatesFirst(r, summary, iter) ==
    LET creates == filterByChangeType(summary.ResourceChanges, Create)
        updates == filterByChangeType(summary.ResourceChanges, Update)
        deletes == filterByChangeType(summary.ResourceChanges, Delete)
    IN  (IF Len(updates) > 0
         THEN renderChangeGroup(r, TitleUpdate, updates, "yellow", iter) ELSE << >>)
        \o (IF Len(creates) > 0
            THEN renderChangeGroup(r, TitleCreate, creates, "green", iter) ELSE << >>)
        \o (IF Len(deletes) > 0
            THEN renderChangeGroup(r, TitleDelete, deletes, "red", iter) ELSE << >>)

\* Renderer.renderResourceChanges
renderResourceChanges(r, summary, iter) ==
    LET creates == filterByChangeType(summary.ResourceChanges, Create)
        updates == filterByChangeType(summary.ResourceChanges, Update)
        deletes == filterByChangeType(summary.ResourceChanges, Delete)
    IN  (IF Len(creates) > 0
         THEN renderChangeGroup(r, TitleCreate, creates, "green", iter) ELSE << >>)
        \o (IF Len(updates) > 0
            THEN renderChangeGroup(r, TitleUpdate, updates, "yellow", iter) ELSE << >>)
        \o (IF Len(deletes) > 0
            THEN renderChangeGroup(r, TitleDelete, deletes, "red", iter) ELSE << >>)

\* Renderer.Render: the lines written to w
RenderLines(r, summary, iter) ==
    renderSummaryTable(r, summary)
    \o renderResourceChanges(r, summary, iter)
    \o << BlankLine, TextLine("Summary", "none"), TextLine("=======", "none"),
          BlankLine >>
    \o renderSummaryTable(r, summary)

\* the caller's slice after a group was filtered into the caller's own
\* backing array (filtered := changes[:0]) and sorted there
ChangesAfterGroup_sharedArray(changes, changeType) ==
    LET sorted == SortByAddress(filterByChangeType(changes, changeType))
    IN  sorted \o SubSeq(changes, Len(sorted) + 1, Len(changes))

\* the caller's slice after renderResourceChanges has filtered one group and
\* renderChangeGroup has sorted it: filterByChangeType appends to a nil
\* slice, so the filtered slice has a backing array of its own, and sort.Slice
\* swaps elements of that slice only
ChangesAfterGroup(changes, changeType) == changes

\* the summary as Render leaves it: no counter is assigned, and the three
\* groups are filtered and sorted one after the other
SummaryAfterRender(summary) ==
    [summary EXCEPT !.ResourceChanges =
        ChangesAfterGroup(ChangesAfterGroup(ChangesAfterGroup(@, Create), Update),
                          Delete)]

(***************************************************************************)
(* State.                                                                  *)
(***************************************************************************)
VARIABLES
    \* a call of truncateValue: its arguments, its position and its result
    tvValue, tvMaxWidth, tvPc, tvResult,
    \* a call of GetTableConfig: the Config, the position and the TableConfig
    gcConfig, gcPc, gcResult,
    \* a call of processResourceChange: the raw record, the position and the
    \* returned pair
    prRaw, prPc, prResult,
    \* a run of the program: where the input bytes are and what they are, the
    \* decoded plan.ResourceChanges, the position, the loop index of
    \* ParseJSON, the PlanSummary under construction, the warnings written to
    \* stderr, the Renderer, the lines written to stdout, the exit status and
    \* the error of the read or parse call
    input, plan, pc, idx, summary, warnings, renderer, out, exitCode, err

truncVars == << tvValue, tvMaxWidth, tvPc, tvResult >>
configVars == << gcConfig, gcPc, gcResult >>
normVars == << prRaw, prPc, prResult >>
runVars == << input, plan, pc, idx, summary, warnings, renderer, out, exitCode, err >>

vars == << tvValue, tvMaxWidth, tvPc, tvResult, gcConfig, gcPc, gcResult,
           prRaw, prPc, prResult, input, plan, pc, idx, summary, warnings, renderer,
           out, exitCode, err >>

\* a nil *PlanSummary, a nil *Renderer, a nil *TableConfig
NilSummary == [nil |-> TRUE]
NilRenderer == [nil |-> TRUE]
NilTableConfig == [nil |-> TRUE]

\* what json.Unmarshal makes of bytes that are not a JSON document
DecodeError == [err |-> TRUE, ResourceChanges |-> << >>]

\* no input bytes: nothing was read yet from anywhere, or the bytes were
\* decoded and are not looked at again
NoInput == [source |-> "none", readable |-> FALSE, data |-> << >>,
            decoded |-> DecodeError]

\* the process has not exited
Running == -1

TruncIdle ==
    /\ tvValue = << >>
    /\ tvMaxWidth = 0
    /\ tvPc = "idle"
    /\ tvResult = << >>

ConfigIdle ==
    /\ gcConfig = DefaultConfig
    /\ gcPc = "idle"
    /\ gcResult = NilTableConfig

NormIdle ==
    /\ prRaw = EmptyMap
    /\ prPc = "idle"
    /\ prResult = [rc |-> NilChange, err |-> FALSE]

RunIdle ==
    /\ input = NoInput
    /\ exitCode = Running
    /\ err = NoError
    /\ plan = << >>
    /\ pc = "idle"
    /\ idx = 0
    /\ summary = NilSummary
    /\ warnings = 0
    /\ renderer = NilRenderer
    /\ out = << >>

(***************************************************************************)
(* Inputs of truncateValue: every body over BodyChars up to MaxBody,       *)
(* bare or wrapped in braces or brackets, with every width up to           *)
(* MaxWidthArg; and the vectors of TestTruncateValue.                      *)
(***************************************************************************)
BodyChars == { "a", "/" }

Bodies == UNION { [1..n -> BodyChars] : n \in 0..MaxBody }

Wrappers == { << << >>, << >> >>, << << "{" >>, << "}" >> >>,
              << << "[" >>, << "]" >> >>, << << "{" >>, << "]" >> >> }

EnumValues == { w[1] \o b \o w[2] : w \in Wrappers, b \in Bodies }

\* "short"
TestShort == << "s", "h", "o", "r", "t" >>
\* "this is a very long value that should be truncated"
TestLong ==
    << "t", "h", "i", "s", " ", "i", "s", " ", "a", " ", "v", "e", "r", "y",
       " ", "l", "o", "n", "g", " ", "v", "a", "l", "u", "e", " ", "t", "h",
       "a", "t", " ", "s", "h", "o", "u", "l", "d", " ", "b", "e", " ", "t",
       "r", "u", "n", "c", "a", "t", "e", "d" >>
\* "/very/long/path/with/many/nested/directories/file.txt"
TestPath ==
    << "/", "v", "e", "r", "y", "/", "l", "o", "n", "g", "/", "p", "a", "t",
       "h", "/", "w", "i", "t", "h", "/", "m", "a", "n", "y", "/", "n", "e",
       "s", "t", "e", "d", "/", "d", "i", "r", "e", "c", "t", "o", "r", "i",
       "e", "s", "/", "f", "i", "l", "e", ".", "t", "x", "t" >>
\* "{\"key\":\"value\",\"nested\":{\"prop\":\"too long to display fully\"}}"
TestJSON ==
    << "{", "\"", "k", "e", "y", "\"", ":", "\"", "v", "a", "l", "u", "e", "\"",
       ",", "\"", "n", "e", "s", "t", "e", "d", "\"", ":", "{", "\"", "p",
       "r", "o", "p", "\"", ":", "\"", "t", "o", "o", " ", "l", "o", "n",
       "g", " ", "t", "o", " ", "d", "i", "s", "p", "l", "a", "y", " ", "f",
       "u", "l", "l", "y", "\"", "}", "}" >>

TestVectors == { << TestShort, 10 >>, << TestLong, 20 >>, << TestPath, 25 >>,
                 << TestJSON, 20 >> }

TruncInputs == (EnumValues \X (1..MaxWidthArg)) \cup TestVectors

(***************************************************************************)
(* Specification of one call of truncateValue.                             *)
(***************************************************************************)
InitTrunc ==
    /\ \E in \in TruncInputs : tvValue = in[1] /\ tvMaxWidth = in[2]
    /\ tvPc = "call"
    /\ tvResult = << >>
    /\ ConfigIdle /\ NormIdle /\ RunIdle

Truncate ==
    /\ tvPc = "call"
    /\ tvResult' = truncateValue(tvValue, tvMaxWidth)
    /\ tvPc' = "done"
    /\ UNCHANGED << tvValue, tvMaxWidth, configVars, normVars, runVars >>

NextTrunc == Truncate

SpecTrunc == InitTrunc /\ [][NextTrunc]_vars

(***************************************************************************)
(* Specification of one call of GetTableConfig.                            *)
(***************************************************************************)
Formats == { StandardFormat, WideFormat }

ConfigInputs ==
    [OutputFormat : Formats, NoColor : { FALSE }, MaxWidth : (-2)..MaxTermWidth,
     AutoDetectWidth : BOOLEAN]

InitConfig ==
    /\ gcConfig \in ConfigInputs
    /\ gcPc = "call"
    /\ gcResult = NilTableConfig
    /\ TruncIdle /\ NormIdle /\ RunIdle

CallGetTableConfig ==
    /\ gcPc = "call"
    /\ gcResult' = GetTableConfig(gcConfig)
    /\ gcPc' = "done"
    /\ UNCHANGED << gcConfig, truncVars, normVars, runVars >>

NextConfig == CallGetTableConfig

SpecConfig == InitConfig /\ [][NextConfig]_vars

(***************************************************************************)
(* Raw resource_changes records: every combination of a present, missing   *)
(* or ill-typed address, type, change, actions, before and after.          *)
(***************************************************************************)
\* marks a key left out of a map under construction; never a value
Missing == [k |-> "missing"]

\* the map with the given << key, value >> pairs, without the Missing ones
MkMap(pairs) ==
    LET present == { p \in pairs : p[2] # Missing }
    IN  [key \in { p[1] : p \in present } |-> (CHOOSE p \in present : p[1] = key)[2]]

\* "replace"
S_replace == << "r", "e", "p", "l", "a", "c", "e" >>
\* "ami"
K_ami == << "a", "m", "i" >>
\* "tags"
K_tags == << "t", "a", "g", "s" >>
\* "Name"
K_Name == << "N", "a", "m", "e" >>
\* "ami-123"
V_ami123 == << "a", "m", "i", "-", "1", "2", "3" >>
\* "ami-456"
V_ami456 == << "a", "m", "i", "-", "4", "5", "6" >>
\* "web"
V_web == << "w", "e", "b" >>
\* "module.m.aws_x.n"
A_module ==
    << "m", "o", "d", "u", "l", "e", ".", "m", ".", "a", "w", "s", "_", "x",
       ".", "n" >>
\* "aws_x.n"
A_plain == << "a", "w", "s", "_", "x", ".", "n" >>
\* "solo"
A_bare == << "s", "o", "l", "o" >>
\* "aws_x"
T_aws_x == << "a", "w", "s", "_", "x" >>

AddrOptions ==
    { Missing, JNull, JNum(7), JBool(TRUE), JStr(<< >>), JStr(A_bare), JStr(A_plain),
      JStr(A_module) }

TypeOptions == { Missing, JNum(7), JStr(<< >>), JStr(T_aws_x) }

ActionNames == { S_create, S_update, S_delete, S_noop, S_replace }

ActionsOptions ==
    { Missing, JNull, JStr(S_create), JList(<< >>), JList(<< JNum(7) >>),
      JList(<< JNull >>) }
    \cup { JList(<< JStr(a) >>) : a \in ActionNames }
    \cup { JList(<< JNum(7), JStr(a) >>) : a \in ActionNames }
    \cup { JList(<< JStr(a), JStr(b) >>) : a \in ActionNames, b \in ActionNames }

StateOptions ==
    { Missing, JNull, JStr(V_web), JMap(EmptyMap),
      JMap(MkMap({ << K_ami, JStr(V_ami123) >> })),
      JMap(MkMap({ << K_ami, JStr(V_ami456) >>,
                   << K_tags, JMap(MkMap({ << K_Name, JStr(V_web) >> })) >> })) }

ChangeOptions ==
    { Missing, JNull, JStr(V_web), JList(<< >>) }
    \cup { JMap(MkMap({ << K_actions, a >>, << K_before, b >>, << K_after, c >> })) :
             a \in ActionsOptions, b \in StateOptions, c \in StateOptions }

RawRecords ==
    { MkMap({ << K_address, a >>, << K_type, t >>, << K_change, c >> }) :
        a \in AddrOptions, t \in TypeOptions, c \in ChangeOptions }

(***************************************************************************)
(* Specification of one call of processResourceChange.                     *)
(***************************************************************************)
InitNormalize ==
    /\ prRaw \in RawRecords
    /\ prPc = "call"
    /\ prResult = [rc |-> NilChange, err |-> FALSE]
    /\ TruncIdle /\ ConfigIdle /\ RunIdle

CallProcessResourceChange ==
    /\ prPc = "call"
    /\ prResult' = processResourceChange(prRaw)
    /\ prPc' = "done"
    /\ UNCHANGED << prRaw, truncVars, configVars, runVars >>

NextNormalize == CallProcessResourceChange

SpecNormalize == InitNormalize /\ [][NextNormalize]_vars

(***************************************************************************)
(* Plans handed to the program: resource_changes lists of up to MaxRecords *)
(* records; a record has no address, or one of two addresses, with one of  *)
(* the four actions and the before and after states that action has.       *)
(***************************************************************************)
\* "x.a"
A_xa == << "x", ".", "a" >>
\* "x.b"
A_xb == << "x", ".", "b" >>
\* "x"
T_x == << "x" >>
\* "y"
T_y == << "y" >>

\* the state of the resource at an address; the one at x.b has a long path
StateOf(address) ==
    JMap(MkMap({ << K_ami, JStr(IF address = A_xb THEN TestPath ELSE V_ami123) >> }))

NewStateOf(address) ==
    JMap(MkMap({ << K_ami, JStr(V_ami456) >>,
                 << K_tags, JMap(MkMap({ << K_Name, JStr(V_web) >> })) >> }))

BeforeOf(address, action) == IF action = S_create THEN JNull ELSE StateOf(address)

AfterOf(address, action) ==
    CASE action = S_create -> StateOf(address)
      [] action = S_update -> NewStateOf(address)
      [] action = S_delete -> JNull
      [] OTHER -> StateOf(address)

PlanRecord(addr, type, action) ==
    MkMap({ << K_address, addr >>, << K_type, JStr(type) >>,
            << K_change,
               JMap(MkMap({ << K_actions, JList(<< JStr(action) >>) >>,
                            << K_before, BeforeOf(AsString(addr), action) >>,
                            << K_after, AfterOf(AsString(addr), action) >> })) >> })

PlanRecords ==
    { PlanRecord(Missing, T_x, S_create) }
    \cup { PlanRecord(JStr(at[1]), at[2], action) :
             at \in { << A_xa, T_x >>, << A_xa, T_y >>, << A_xb, T_x >> },
             action \in { S_create, S_update, S_delete } }
    \cup { PlanRecord(JStr(a), T_x, S_noop) : a \in { A_xa, A_xb } }

Plans == UNION { [1..n -> PlanRecords] : n \in 0..MaxRecords }

\* the Renderers that are built: with the default configuration, coloured or
\* not, by main; with the standard and the wide configuration without
\* auto-detection and without colour by the renderer tests
Renderers ==
    { NewRenderer(TRUE, DefaultConfig),
      NewRenderer(FALSE, DefaultConfig),
      NewRenderer(FALSE, [DefaultConfig EXCEPT !.NoColor = TRUE,
                                               !.AutoDetectWidth = FALSE]),
      NewRenderer(FALSE, [DefaultConfig EXCEPT !.OutputFormat = WideFormat,
                                               !.NoColor = TRUE,
                                               !.AutoDetectWidth = FALSE]) }

(***************************************************************************)
(* Input documents.  A document is its bytes together with what            *)
(* json.Unmarshal makes of them; the bytes of a plan are the JSON text of   *)
(* its records.                                                            *)
(***************************************************************************)
\* the JSON text of a value, object keys in ascending order
RECURSIVE MarshalJSON(_)
MarshalJSON(j) ==
    CASE j.k = "null" -> << "n", "u", "l", "l" >>
      [] j.k = "bool" -> IF j.b THEN S_true ELSE S_false
      [] j.k = "num" -> Itoa(j.n)
      [] j.k = "str" -> << "\"" >> \o j.s \o << "\"" >>
      [] j.k = "list" ->
            << "[" >> \o Join([i \in 1..Len(j.l) |-> MarshalJSON(j.l[i])], << "," >>)
                     \o << "]" >>
      [] j.k = "map" ->
            LET keys == SortStrings(DOMAIN j.m)
            IN  << "{" >>
                \o Join([i \in 1..Len(keys) |->
                            << "\"" >> \o keys[i] \o << "\"", ":" >>
                            \o MarshalJSON(j.m[keys[i]])], << "," >>)
                \o << "}" >>

\* the JSON text of each record of the model
RecordTexts == [record \in PlanRecords |-> MarshalJSON(JMap(record))]

\* {"resource_changes":[
S_planOpen ==
    <<"{", "\"", "r", "e", "s", "o", "u", "r", "c", "e", "_", "c", "h", "a",
          "n", "g", "e", "s", "\"", ":", "[">>

\* the document of a plan with the given resource_changes
PlanDocument(records) ==
    [data |-> S_planOpen
              \o Join([i \in 1..Len(records) |-> RecordTexts[records[i]]], << "," >>)
              \o << "]", "}" >>,
     decoded |-> [err |-> FALSE, ResourceChanges |-> records]]

\* documents that are no plan: no bytes, white space, the error output of
\* Terraform, a JSON array, a truncated object, an object that quotes a
\* provider error, and an object without resource_changes
OtherDocuments ==
    { [data |-> << >>, decoded |-> DecodeError],
      [data |-> << " ", "\n" >>, decoded |-> DecodeError],
      [data |-> <<"E", "r", "r", "o", "r", ":", " ", "C", "o", "u", "l", "d", " ", "n",
                     "o", "t", " ", "l", "o", "a", "d", " ", "p", "l", "u", "g", "i", "n">>,
       decoded |-> DecodeError],
      [data |-> <<"E", "r", "r", "o", "r", ":", " ", "x">>,
       decoded |-> DecodeError],
      [data |-> << "[", "]" >>, decoded |-> DecodeError],
      [data |-> <<"{", "\"", "a", "\"", ":", "{", "}">>,
       decoded |-> DecodeError],
      [data |-> <<"{", "\"", "e", "\"", ":", "\"", "u", "n", "a", "v", "a", "i", "l", "a",
                     "b", "l", "e", " ", "p", "r", "o", "v", "i", "d", "e", "r", "\"", "}">>,
       decoded |-> [err |-> FALSE, ResourceChanges |-> << >>]],
      [data |-> << "{", "}" >>,
       decoded |-> [err |-> FALSE, ResourceChanges |-> << >>]] }

\* "unavailable provider"
V_unavailable ==
    << "u", "n", "a", "v", "a", "i", "l", "a", "b", "l", "e", " ", "p", "r",
       "o", "v", "i", "d", "e", "r" >>

\* the record of a resource to create whose attribute has the text of a
\* provider error as its value
QuotingRecord ==
    MkMap({ << K_address, JStr(A_xa) >>, << K_type, JStr(T_x) >>,
            << K_change,
               JMap(MkMap({ << K_actions, JList(<< JStr(S_create) >>) >>,
                            << K_before, JNull >>,
                            << K_after,
                               JMap(MkMap({ << K_ami, JStr(V_unavailable) >> })) >> })) >> })

\* the plan with that record alone
QuotingPlan ==
    [data |-> S_planOpen \o MarshalJSON(JMap(QuotingRecord)) \o << "]", "}" >>,
     decoded |-> [err |-> FALSE, ResourceChanges |-> << QuotingRecord >>]]

Documents ==
    OtherDocuments \cup { QuotingPlan } \cup { PlanDocument(records) : records \in Plans }

\* what the program is started on: a terminal as stdin and no file; a file
\* or a pipe that cannot be read; a file or a pipe with a document
Inputs ==
    { [source |-> "terminal", readable |-> FALSE, data |-> << >>,
       decoded |-> DecodeError] }
    \cup { [source |-> src, readable |-> FALSE, data |-> << >>,
            decoded |-> DecodeError] : src \in { "file", "stdin" } }
    \cup { [source |-> src, readable |-> TRUE, data |-> doc.data,
            decoded |-> doc.decoded] : src \in { "file", "stdin" }, doc \in Documents }

(***************************************************************************)
(* Specification of a run of main: read the input, ParseFile or ParseJSON, *)
(* renderer.New and Render.                                                *)
(***************************************************************************)
Init ==
    /\ input \in Inputs
    /\ plan = << >>
    /\ pc = "main"
    /\ idx = 0
    /\ summary = NilSummary
    /\ warnings = 0
    /\ renderer = NilRenderer
    /\ out = << >>
    /\ exitCode = Running
    /\ err = NoError
    /\ TruncIdle /\ ConfigIdle /\ NormIdle

\* the error of the parse call ignored: main goes on to the renderer
Exit1_continue ==
    /\ pc' = "parsed"
    /\ UNCHANGED << input, plan, idx, summary, warnings, renderer, out, exitCode >>

\* os.Exit(1) after a message on stderr
Exit1 ==
    /\ exitCode' = 1
    /\ pc' = "exited"
    /\ UNCHANGED << input, plan, idx, summary, warnings, renderer, out >>

\* the bytes are in memory and ParseJSON is entered with them
EnterParseJSON ==
    /\ input' = [input EXCEPT !.source = "memory"]
    /\ pc' = "ParseJSON"
    /\ UNCHANGED << plan, idx, summary, warnings, renderer, out, exitCode, err >>

\* no file given and stdin is a terminal: usage and exit status 1
ShowUsage ==
    /\ pc = "main"
    /\ input.source = "terminal"
    /\ Exit1
    /\ UNCHANGED err
    /\ UNCHANGED << truncVars, configVars, normVars >>

\* io.ReadAll(os.Stdin), then ParseJSON(planData)
ReadStdin ==
    /\ pc = "main"
    /\ input.source = "stdin"
    /\ IF ~input.readable THEN err' = ErrRead /\ Exit1 ELSE EnterParseJSON
    /\ UNCHANGED << truncVars, configVars, normVars >>

\* ParseFile up to its call of ParseJSON
ParseFile ==
    /\ pc = "main"
    /\ input.source = "file"
    /\ LET e == ParseFileError(input.readable, input.data)
       IN  IF e # NoError THEN err' = e /\ Exit1 ELSE EnterParseJSON
    /\ UNCHANGED << truncVars, configVars, normVars >>

\* ParseJSON up to json.Unmarshal: the first check that fails gives the
\* error, with which main exits
ParseJSON ==
    /\ pc = "ParseJSON"
    /\ LET e == ParseJSONError(input.data)
       IN  IF e # NoError
           THEN err' = e /\ Exit1
           ELSE /\ pc' = "Unmarshal"
                /\ UNCHANGED << input, plan, idx, summary, warnings, renderer, out,
                                exitCode, err >>
    /\ UNCHANGED << truncVars, configVars, normVars >>

\* json.Unmarshal(data, &plan): an error makes main exit, and the decoded
\* plan is kept otherwise
Unmarshal ==
    /\ pc = "Unmarshal"
    /\ IF input.decoded.err
       THEN err' = ErrDecode /\ Exit1
       ELSE /\ plan' = input.decoded.ResourceChanges
            /\ input' = NoInput
            /\ pc' = "decoded"
            /\ UNCHANGED << idx, summary, warnings, renderer, out, exitCode, err >>
    /\ UNCHANGED << truncVars, configVars, normVars >>

\* len(plan.ResourceChanges) == 0: an empty summary is returned at once
ParseEmpty ==
    /\ pc = "decoded"
    /\ Len(plan) = 0
    /\ summary' = EmptySummary
    /\ pc' = "parsed"
    /\ UNCHANGED << input, plan, idx, warnings, renderer, out, exitCode, err, truncVars,
                    configVars, normVars >>

\* the summary is allocated and the loop entered
ParseBegin ==
    /\ pc = "decoded"
    /\ Len(plan) > 0
    /\ summary' = EmptySummary
    /\ idx' = 0
    /\ pc' = "loop"
    /\ UNCHANGED << input, plan, warnings, renderer, out, exitCode, err, truncVars,
                    configVars, normVars >>

\* one iteration of the loop over plan.ResourceChanges
ProcessRecord ==
    /\ pc = "loop"
    /\ idx < Len(plan)
    /\ LET res == processResourceChange(plan[idx + 1])
       IN  /\ IF res.err
              THEN /\ warnings' = warnings + 1
                   /\ UNCHANGED summary
              ELSE /\ summary' = AppendChange(summary, res.rc)
                   /\ UNCHANGED warnings
           /\ idx' = AfterRecord(idx, Len(plan), res.err)
    /\ UNCHANGED << input, plan, pc, renderer, out, exitCode, err, truncVars, configVars,
                    normVars >>

\* the loop is over: return summary, nil
ParseReturn ==
    /\ pc = "loop"
    /\ idx >= Len(plan)
    /\ pc' = "parsed"
    /\ UNCHANGED << input, plan, idx, summary, warnings, renderer, out, exitCode, err,
                    truncVars, configVars, normVars >>

\* renderer.New(WithColor(...), WithConfig(...))
CreateRenderer ==
    /\ pc = "parsed"
    /\ renderer' \in Renderers
    /\ pc' = "render"
    /\ UNCHANGED << input, plan, idx, summary, warnings, out, exitCode, err, truncVars,
                    configVars, normVars >>

\* the attribute keys that occur in the BeforeValues and AfterValues of the
\* model
AttrKeys == { K_ami, K_tags }

\* the orders in which a range over a map can visit the attribute keys
IterationOrders ==
    { iter \in [1..Cardinality(AttrKeys) -> AttrKeys] :
        \A i, j \in DOMAIN iter : iter[i] = iter[j] => i = j }

\* r.Render(w, summary): the lines are written to w, with the maps walked in
\* some order
RenderCall ==
    /\ pc = "render"
    /\ \E iter \in IterationOrders : out' = out \o RenderLines(renderer, summary, iter)
    /\ summary' = SummaryAfterRender(summary)
    /\ pc' = "done"
    /\ UNCHANGED << input, plan, idx, warnings, renderer, err, truncVars, configVars,
                    normVars >>

\* r.Render(os.Stdout, summary), after which main returns
Render ==
    /\ RenderCall
    /\ exitCode' = 0

Next ==
    \/ ShowUsage
    \/ ReadStdin
    \/ ParseFile
    \/ ParseJSON
    \/ Unmarshal
    \/ ParseEmpty
    \/ ParseBegin
    \/ ProcessRecord
    \/ ParseReturn
    \/ CreateRenderer
    \/ Render

Spec == Init /\ [][Next]_vars

(***************************************************************************)
(* Specification of the renderer on summaries built by hand, as the        *)
(* renderer tests build them: one resource whose BeforeValues and          *)
(* AfterValues have any of the attribute keys with a short value, an empty *)
(* value, a long path or the long description of createTestSummary.        *)
(***************************************************************************)
\* "This is a longer description that should be truncated in standard mode
\* but visible in wide mode"
V_description ==
    <<"T", "h", "i", "s", " ", "i", "s", " ", "a", " ", "l", "o", "n", "g",
          "e", "r", " ", "d", "e", "s", "c", "r", "i", "p", "t", "i", "o", "n",
          " ", "t", "h", "a", "t", " ", "s", "h", "o", "u", "l", "d", " ", "b",
          "e", " ", "t", "r", "u", "n", "c", "a", "t", "e", "d", " ", "i", "n",
          " ", "s", "t", "a", "n", "d", "a", "r", "d", " ", "m", "o", "d", "e",
          " ", "b", "u", "t", " ", "v", "i", "s", "i", "b", "l", "e", " ", "i",
          "n", " ", "w", "i", "d", "e", " ", "m", "o", "d", "e">>

AttrValues == { << >>, V_ami123, V_ami456, TestPath, V_description }

\* the map[string]string values over the attribute keys
ValueMaps ==
    UNION { [keys -> AttrValues] : keys \in SUBSET AttrKeys }

TestChanges ==
    { [Address |-> A_xa, Type |-> T_x, Name |-> NameOf(A_xa), ChangeType |-> kind,
       Before |-> EmptyMap, After |-> EmptyMap, BeforeValues |-> before,
       AfterValues |-> after, Module |-> << >>] :
        kind \in { Create, Update, Delete }, before \in ValueMaps, after \in ValueMaps }

InitRender ==
    /\ summary \in { AppendChange(EmptySummary, change) : change \in TestChanges }
    /\ pc = "parsed"
    /\ input = NoInput
    /\ plan = << >>
    /\ idx = 0
    /\ warnings = 0
    /\ renderer = NilRenderer
    /\ out = << >>
    /\ exitCode = Running
    /\ err = NoError
    /\ TruncIdle /\ ConfigIdle /\ NormIdle

\* r.Render(&buf, summary)
RenderToBuffer ==
    /\ RenderCall
    /\ UNCHANGED exitCode

NextRender ==
    \/ CreateRenderer
    \/ RenderToBuffer

SpecRender == InitRender /\ [][NextRender]_vars

(***************************************************************************)
(* Properties of truncateValue (SpecTrunc).                                *)
(***************************************************************************)

(***************************************************************************)
(* C1: for every value and every maxWidth >= 1, truncateValue returns a    *)
(* string of length at most maxWidth, on every branch.                     *)
(***************************************************************************)
C1_TruncatedFits ==
    (tvPc = "done" /\ tvMaxWidth >= 1) => Len(tvResult) <= tvMaxWidth

(***************************************************************************)
(* C2: a value with len(value) <= maxWidth is returned unchanged, whatever *)
(* its shape.                                                              *)
(***************************************************************************)
C2_ShortUnchanged ==
    (tvPc = "done" /\ Len(tvValue) <= tvMaxWidth) => tvResult = tvValue

\* a path-like value that exactly fills maxWidth has been returned as it is
C2_Witness ==
    /\ tvPc = "done"
    /\ Len(tvValue) = tvMaxWidth
    /\ Len(Split(tvValue, "/")) > 2
    /\ tvResult = tvValue

(***************************************************************************)
(* Properties of ParseJSON (Spec).                                         *)
(***************************************************************************)
\* the number of entries of the summary with the given change type
CountOf(changeType) ==
    Cardinality({ i \in DOMAIN summary.ResourceChanges :
                    summary.ResourceChanges[i].ChangeType = changeType })

(***************************************************************************)
(* C3: in the summary built by ParseJSON, after every prefix of the list,  *)
(* the four counters add up to len(ResourceChanges) and each counter is    *)
(* the number of entries of its change type.                               *)
(***************************************************************************)
C3_CountersMatch ==
    summary # NilSummary =>
        /\ summary.AddCount + summary.ChangeCount + summary.DeleteCount
           + summary.NoOpCount = Len(summary.ResourceChanges)
        /\ summary.AddCount = CountOf(Create)
        /\ summary.ChangeCount = CountOf(Update)
        /\ summary.DeleteCount = CountOf(Delete)
        /\ summary.NoOpCount = CountOf(NoOp)

\* in the middle of the loop, after a create and a no-op
C3_Witness ==
    /\ pc = "loop"
    /\ idx = 2
    /\ idx < Len(plan)
    /\ summary.AddCount = 1
    /\ summary.NoOpCount = 1

\* the record has an address that is a non-empty string
UsableAddress(raw) ==
    /\ K_address \in DOMAIN raw
    /\ raw[K_address].k = "str"
    /\ raw[K_address].s # << >>

\* the records the loop has dealt with
Processed == IF pc = "loop" THEN SubSeq(plan, 1, idx) ELSE plan

(***************************************************************************)
(* C4: records that fail normalization do not abort the aggregation: the   *)
(* ResourceChanges are the successfully normalized records in input order, *)
(* and a failing record adds no entry and increments no counter.           *)
(***************************************************************************)
C4_FailuresSkipped ==
    summary # NilSummary =>
        LET good == SelectSeq(Processed, UsableAddress)
        IN  /\ Len(summary.ResourceChanges) = Len(good)
            /\ \A i \in 1..Len(good) :
                  /\ summary.ResourceChanges[i].Address = good[i][K_address].s
                  /\ summary.ResourceChanges[i] = processResourceChange(good[i]).rc
            /\ summary.AddCount + summary.ChangeCount + summary.DeleteCount
               + summary.NoOpCount = Len(good)
            /\ warnings = Len(Processed) - Len(good)

\* a plan whose second record failed, returned with the first and the third
C4_Witness ==
    /\ pc = "parsed"
    /\ Len(plan) = 3
    /\ UsableAddress(plan[1])
    /\ ~UsableAddress(plan[2])
    /\ UsableAddress(plan[3])
    /\ plan[1] # plan[3]
    /\ Len(summary.ResourceChanges) = 2
    /\ warnings = 1

(***************************************************************************)
(* Properties of processResourceChange (SpecNormalize).                    *)
(***************************************************************************)

(***************************************************************************)
(* C5: processResourceChange fails exactly when the address is missing,    *)
(* not a string or empty; every other malformation yields a ResourceChange *)
(* with a non-empty Address.                                               *)
(***************************************************************************)
C5_OnlyAddressFails ==
    prPc = "done" =>
        /\ prResult.err <=> ~UsableAddress(prRaw)
        /\ prResult.err => prResult.rc = NilChange
        /\ ~prResult.err =>
              /\ prResult.rc # NilChange
              /\ prResult.rc.Address # << >>
              /\ prResult.rc.Address = prRaw[K_address].s

\* a record without type, whose change has no action list and a string as
\* before, normalized without error
C5_Witness ==
    /\ prPc = "done"
    /\ ~prResult.err
    /\ K_type \notin DOMAIN prRaw
    /\ K_change \in DOMAIN prRaw
    /\ prRaw[K_change].k = "map"
    /\ K_actions \notin DOMAIN prRaw[K_change].m
    /\ K_before \in DOMAIN prRaw[K_change].m
    /\ prRaw[K_change].m[K_before].k = "str"
    /\ prResult.rc.Address # << >>

\* the first element of change.actions, null when there is none
FirstAction(raw) ==
    IF /\ K_change \in DOMAIN raw
       /\ raw[K_change].k = "map"
       /\ K_actions \in DOMAIN raw[K_change].m
       /\ raw[K_change].m[K_actions].k = "list"
       /\ Len(raw[K_change].m[K_actions].l) > 0
    THEN raw[K_change].m[K_actions].l[1]
    ELSE JNull

(***************************************************************************)
(* C6: the ChangeType of a normalized record is given by the first element *)
(* of change.actions alone: create, update, delete and no-op give their    *)
(* type, anything else (also no list, no change) gives NoOp.               *)
(***************************************************************************)
C6_FirstActionDecides ==
    (prPc = "done" /\ ~prResult.err) =>
        prResult.rc.ChangeType =
            (IF FirstAction(prRaw) = JStr(S_create) THEN Create
             ELSE IF FirstAction(prRaw) = JStr(S_update) THEN Update
             ELSE IF FirstAction(prRaw) = JStr(S_delete) THEN Delete
             ELSE NoOp)

\* actions ["delete", "create"] normalized to Delete
C6_Witness ==
    /\ prPc = "done"
    /\ ~prResult.err
    /\ K_change \in DOMAIN prRaw
    /\ prRaw[K_change].k = "map"
    /\ K_actions \in DOMAIN prRaw[K_change].m
    /\ prRaw[K_change].m[K_actions] = JList(<< JStr(S_delete), JStr(S_create) >>)
    /\ prResult.rc.ChangeType = Delete

(***************************************************************************)
(* Properties of GetTableConfig (SpecConfig).                              *)
(***************************************************************************)

(***************************************************************************)
(* C7: with auto-detection, MaxWidth > 0 and MaxWidth - 10 > 60 the widths *)
(* are floor(0.30 * (MaxWidth - 10)) and floor(0.35 * (MaxWidth - 10)) for *)
(* both formats; otherwise 13 and 16 (standard) or 13 and 32 (wide).       *)
(* MaxWidth 70 keeps the base widths, and both widths are positive.        *)
(***************************************************************************)
C7_TableWidths ==
    gcPc = "done" =>
        LET available == gcConfig.MaxWidth - 10
            attr == gcResult.MaxAttributeWidth
            val == gcResult.MaxValueWidth
        IN  /\ IF gcConfig.AutoDetectWidth /\ gcConfig.MaxWidth > 0 /\ available > 60
               THEN /\ 100 * attr <= 30 * available
                    /\ 30 * available < 100 * (attr + 1)
                    /\ 100 * val <= 35 * available
                    /\ 35 * available < 100 * (val + 1)
               ELSE /\ attr = 13
                    /\ gcConfig.OutputFormat = StandardFormat => val = 16
                    /\ gcConfig.OutputFormat = WideFormat => val = 32
            /\ gcConfig.MaxWidth = 100 /\ gcConfig.AutoDetectWidth => attr = 27 /\ val = 31
            /\ gcConfig.MaxWidth = 70 => attr = 13
            /\ attr > 0
            /\ val > 0

\* a wide configuration with auto-detection and 100 columns got 27 and 31
C7_Witness ==
    /\ gcPc = "done"
    /\ gcConfig.OutputFormat = WideFormat
    /\ gcConfig.AutoDetectWidth
    /\ gcConfig.MaxWidth = 100
    /\ gcResult.MaxAttributeWidth = 27
    /\ gcResult.MaxValueWidth = 31

(***************************************************************************)
(* Properties of Render (Spec).                                            *)
(***************************************************************************)
\* the titles of the section lines of the report, in their order
SectionTitles ==
    LET sections == SelectSeq(out, LAMBDA line : line.t = "section")
    IN  [i \in 1..Len(sections) |-> sections[i].title]

\* the positions of the lines of the given kind
LinesOf(kind) == { i \in 1..Len(out) : out[i].t = kind }

\* the titles the claim expects: one per kind with a positive counter
ExpectedTitles ==
    (IF summary.AddCount > 0 THEN << TitleCreate >> ELSE << >>)
    \o (IF summary.ChangeCount > 0 THEN << TitleUpdate >> ELSE << >>)
    \o (IF summary.DeleteCount > 0 THEN << TitleDelete >> ELSE << >>)

(***************************************************************************)
(* C8: Render writes the summary table first, then the sections in the     *)
(* order Create, Update, Delete; a section is written if and only if the   *)
(* counter of its kind is greater than 0.                                  *)
(***************************************************************************)
C8_SectionOrder ==
    pc = "done" =>
        /\ out[1] = TextLine("Terraform Plan Summary", Paint(renderer, "bold"))
        /\ \A i \in LinesOf("section") :
              \E j \in LinesOf("total_row") :
                 /\ j < i
                 /\ \A k \in 1..j : out[k].t \notin { "section", "resource", "table_row" }
        /\ SectionTitles = ExpectedTitles

\* a report with the three sections
C8_Witness ==
    /\ pc = "done"
    /\ summary.AddCount = 1 /\ summary.ChangeCount = 1 /\ summary.DeleteCount = 1
    /\ plan[1][K_change].m[K_actions].l[1] = JStr(S_delete)
    /\ SectionTitles = << TitleCreate, TitleUpdate, TitleDelete >>

\* the change type a section title stands for
KindOfTitle(title) ==
    CASE title = TitleCreate -> Create
      [] title = TitleUpdate -> Update
      [] title = TitleDelete -> Delete

\* the positions of the resource lines of the section with the given title
ResourceLines(title) ==
    { i \in LinesOf("resource") :
        \E s \in LinesOf("section") :
           /\ s < i
           /\ out[s].title = title
           /\ \A k \in (s + 1)..i : out[k].t # "section" }

(***************************************************************************)
(* C9: within each section the resource lines are in non-decreasing order  *)
(* of Address, and they are exactly the resources of that kind in the      *)
(* summary: none dropped, none duplicated.                                 *)
(***************************************************************************)
C9_SectionSorted ==
    pc = "done" =>
        \A s \in LinesOf("section") :
           LET lines == ResourceLines(out[s].title)
               members == { k \in DOMAIN summary.ResourceChanges :
                              summary.ResourceChanges[k].ChangeType
                                  = KindOfTitle(out[s].title) }
           IN  /\ \A i, j \in lines :
                     i < j => ~StrLess(out[j].address, out[i].address)
               /\ Cardinality(lines) = Cardinality(members)
               /\ \A k \in members :
                     Cardinality({ i \in lines :
                                     /\ out[i].address = summary.ResourceChanges[k].Address
                                     /\ out[i].type = summary.ResourceChanges[k].Type })
                     = Cardinality({ m \in members :
                                     /\ summary.ResourceChanges[m].Address
                                            = summary.ResourceChanges[k].Address
                                     /\ summary.ResourceChanges[m].Type
                                            = summary.ResourceChanges[k].Type })

\* two creates given as x.b then x.a are listed as x.a then x.b
C9_Witness ==
    /\ pc = "done"
    /\ Len(summary.ResourceChanges) >= 2
    /\ summary.ResourceChanges[1].ChangeType = Create
    /\ summary.ResourceChanges[2].ChangeType = Create
    /\ summary.ResourceChanges[1].Address = A_xb
    /\ summary.ResourceChanges[2].Address = A_xa
    /\ \E i, j \in ResourceLines(TitleCreate) :
          i < j /\ out[i].address = A_xa /\ out[j].address = A_xb

\* the permutations of 1..n
Perms(n) == { f \in [1..n -> 1..n] : \A i, j \in 1..n : f[i] = f[j] => i = j }

(***************************************************************************)
(* C10: the report does not depend on the input order: a summary with the  *)
(* same counters whose ResourceChanges are a permutation (also when        *)
(* entries share an Address and differ in Type) renders identically.       *)
(***************************************************************************)
C10_OrderIndependent ==
    pc = "done" =>
        \A f \in Perms(Len(summary.ResourceChanges)), iter \in IterationOrders :
           RenderLines(renderer,
                       [summary EXCEPT !.ResourceChanges =
                           [i \in 1..Len(summary.ResourceChanges) |->
                               summary.ResourceChanges[f[i]]]], iter)
           = out

(***************************************************************************)
(* C11: rendering the same summary again with the same renderer gives the  *)
(* same output, whatever the order in which the maps are walked; attribute *)
(* rows come in ascending key order.                                       *)
(***************************************************************************)
C11_RenderRepeatable ==
    pc = "done" =>
        /\ \A iter \in IterationOrders : RenderLines(renderer, summary, iter) = out
        /\ \A i \in 1..(Len(out) - 1) :
              (out[i].t = "table_row" /\ out[i + 1].t = "table_row")
                  => StrLess(out[i].cells[1], out[i + 1].cells[1])

\* a report with an update whose two changed attributes are listed as ami,
\* then tags
C11_Witness ==
    /\ pc = "done"
    /\ \E i \in 1..(Len(out) - 1) :
          /\ out[i].t = "table_row" /\ out[i].cells[1] = K_ami
          /\ out[i + 1].t = "table_row" /\ out[i + 1].cells[1] = K_tags
          /\ Len(out[i].cells) = 3

TheChange == summary.ResourceChanges[1]

\* the positions of the rows of the sub-table
TableRows == { i \in 1..Len(out) : out[i].t = "table_row" }

(***************************************************************************)
(* C13: the rows of the sub-table of an Update resource are the keys that  *)
(* are on both sides with different values and the keys that are on one    *)
(* side only, one row each; a key with equal values on both sides has no   *)
(* row, and without such keys no sub-table is written.                     *)
(***************************************************************************)
C13_DiffRows ==
    (pc = "done" /\ TheChange.ChangeType = Update) =>
        LET before == TheChange.BeforeValues
            after == TheChange.AfterValues
            differing == { k \in DOMAIN before \cap DOMAIN after : before[k] # after[k] }
            oneSided == (DOMAIN before \ DOMAIN after) \cup (DOMAIN after \ DOMAIN before)
        IN  /\ { out[i].cells[1] : i \in TableRows } = differing \cup oneSided
            /\ Cardinality(TableRows) = Cardinality(differing \cup oneSided)
            /\ \A k \in DOMAIN before \cap DOMAIN after :
                  before[k] = after[k] => \A i \in TableRows : out[i].cells[1] # k
            /\ differing \cup oneSided = {} =>
                  \A i \in 1..Len(out) :
                     out[i].t \notin { "table_border", "table_header", "table_row" }

\* an update with the same ami on both sides and tags on the new side only:
\* the sub-table has the one row of tags
C13_Witness ==
    /\ pc = "done"
    /\ TheChange.ChangeType = Update
    /\ K_ami \in DOMAIN TheChange.BeforeValues
    /\ K_ami \in DOMAIN TheChange.AfterValues
    /\ TheChange.BeforeValues[K_ami] = TheChange.AfterValues[K_ami]
    /\ K_tags \notin DOMAIN TheChange.BeforeValues
    /\ K_tags \in DOMAIN TheChange.AfterValues
    /\ { out[i].cells[1] : i \in TableRows } = { K_tags }

(***************************************************************************)
(* More properties of ParseJSON and Render (Spec).                         *)
(***************************************************************************)

(***************************************************************************)
(* C14: the NoOp resources are counted in the No-op row and in the Total   *)
(* of the summary table, and no detail section lists them: the resource    *)
(* lines are those of the creates, updates and deletes only.               *)
(***************************************************************************)
C14_NoOpOnlyCounted ==
    pc = "done" =>
        /\ \A i \in LinesOf("count_row") :
              out[i].action = "No-op" => out[i].count = CountOf(NoOp)
        /\ \A i \in LinesOf("total_row") :
              out[i].count = CountOf(Create) + CountOf(Update) + CountOf(Delete)
                             + CountOf(NoOp)
        /\ Cardinality(LinesOf("resource"))
              = CountOf(Create) + CountOf(Update) + CountOf(Delete)
        /\ \A i \in LinesOf("resource") :
              /\ out[i].symbol \in { "+", "~", "-" }
              /\ \E k \in DOMAIN summary.ResourceChanges :
                    /\ summary.ResourceChanges[k].ChangeType # NoOp
                    /\ summary.ResourceChanges[k].Address = out[i].address

\* a create of x.a and a no-op of x.b: the No-op row shows 1, the Total 2,
\* and x.b is on no resource line
C14_Witness ==
    /\ pc = "done"
    /\ Len(summary.ResourceChanges) = 2
    /\ summary.ResourceChanges[1].ChangeType = Create
    /\ summary.ResourceChanges[1].Address = A_xa
    /\ summary.ResourceChanges[2].ChangeType = NoOp
    /\ summary.ResourceChanges[2].Address = A_xb
    /\ \E i \in LinesOf("count_row") : out[i].action = "No-op" /\ out[i].count = 1
    /\ \E i \in LinesOf("total_row") : out[i].count = 2
    /\ \A i \in LinesOf("resource") : out[i].address # A_xb

(***************************************************************************)
(* C16: a plan whose resource_changes list is empty or absent, or whose    *)
(* records all fail normalization, gives a summary without error, with the *)
(* four counters at 0 and an empty ResourceChanges list.                   *)
(***************************************************************************)
C16_EmptySummary ==
    (pc \in { "parsed", "render", "done" }
     /\ \A i \in 1..Len(plan) : ~UsableAddress(plan[i])) =>
        /\ summary # NilSummary
        /\ summary.ResourceChanges = << >>
        /\ summary.AddCount = 0
        /\ summary.ChangeCount = 0
        /\ summary.DeleteCount = 0
        /\ summary.NoOpCount = 0
        /\ exitCode # 1

\* a plan of two records without address has been parsed: two warnings and
\* an empty summary
C16_Witness ==
    /\ pc = "parsed"
    /\ Len(plan) = 2
    /\ ~UsableAddress(plan[1])
    /\ ~UsableAddress(plan[2])
    /\ warnings = 2
    /\ summary = EmptySummary

FailedInput ==
    \/ ~input.readable
    \/ input.data = << >>
    \/ input.decoded.err
    \/ ContainsAny(input.data, ProviderErrorMarkers)

(***************************************************************************)
(* C15: when reading or parsing the input fails the program exits with a   *)
(* status other than 0 and Render is never called, so nothing is written   *)
(* to stdout; Render runs only after a parse call has returned a summary.  *)
(***************************************************************************)
C15_NoReportOnError ==
    /\ [](exitCode = 1 =>
             /\ out = << >>
             /\ renderer = NilRenderer
             /\ summary = NilSummary
             /\ pc = "exited")
    /\ [](pc \in { "parsed", "render", "done" } =>
             /\ summary # NilSummary
             /\ exitCode # 1)
    /\ [](out # << >> => pc = "done" /\ summary # NilSummary)
    /\ [][(pc \in { "main", "ParseJSON", "Unmarshal" } /\ FailedInput) =>
             /\ out' = << >>
             /\ exitCode' = 1 \/ (pc' \in { "ParseJSON", "Unmarshal" } /\ FailedInput')]_vars

\* a truncated JSON object read from stdin has reached json.Unmarshal and
\* made the program exit with status 1
C15_Witness ==
    /\ pc = "exited"
    /\ exitCode = 1
    /\ input.source = "memory"
    /\ input.decoded.err
    /\ Len(input.data) > 0
    /\ input.data[1] = "{"
    /\ out = << >>

\* the value of the attribute on the given side as the sub-table shows it
\* before any truncation: (none) for a missing or empty value
Shown(values, key) ==
    IF key \in DOMAIN values /\ values[key] # << >> THEN values[key] ELSE S_none

(***************************************************************************)
(* C18: in wide format without auto-detection (value column of 32) an      *)
(* update attribute value longer than the value column is written in full. *)
(***************************************************************************)
C18_WideShowsInFull ==
    (/\ pc = "done"
     /\ TheChange.ChangeType = Update
     /\ renderer.config.OutputFormat = WideFormat
     /\ ~renderer.config.AutoDetectWidth) =>
        /\ renderer.tableConfig.MaxValueWidth = 32
        /\ \A i \in TableRows :
              LET old == Shown(TheChange.BeforeValues, out[i].cells[1])
                  new == Shown(TheChange.AfterValues, out[i].cells[1])
              IN  /\ Len(old) > 32 => out[i].cells[2] = old
                  /\ Len(new) > 32 => out[i].cells[3] = new

(***************************************************************************)
(* C19: in the update and the delete sub-table every value longer than the *)
(* value column is written as truncateValue gives it for that width, in    *)
(* standard and in wide format; no longer value is written as it is.       *)
(***************************************************************************)
C19_LongValuesTruncated ==
    pc = "done" =>
        \A i \in TableRows :
           LET width == out[i].widths[2]
               old == Shown(TheChange.BeforeValues, out[i].cells[1])
               new == Shown(TheChange.AfterValues, out[i].cells[1])
           IN  /\ Len(old) > width => out[i].cells[2] = truncateValue(old, width)
               /\ (TheChange.ChangeType = Update /\ Len(new) > width)
                     => out[i].cells[3] = truncateValue(new, width)

(***************************************************************************)
(* More properties of truncateValue (SpecTrunc).                           *)
(***************************************************************************)
\* the number of leading interior segments whose text, joined by "/", is
\* within the budget
LeadingRun(interior, budget) ==
    LET fits == { k \in 0..Len(interior) :
                    Len(Join(SubSeq(interior, 1, k), << "/" >>)) <= budget }
    IN  CHOOSE k \in fits : \A j \in fits : j <= k

(***************************************************************************)
(* C20: a value longer than maxWidth with a "/" and at least 3 segments,   *)
(* with len(first) + len(last) + 5 < maxWidth, is returned as the first    *)
(* segment, the longest leading run of interior segments that fits the     *)
(* budget maxWidth - len(first) - len(last) - 5, then "/.../" and the last *)
(* segment; as first + "/.../" + last when no interior segment fits.  When *)
(* first + "/.../" + last has no room the other rules apply.               *)
(***************************************************************************)
C20_PathKeepsEnds ==
    (tvPc = "done" /\ Len(tvValue) > tvMaxWidth /\ Contains(tvValue, << "/" >>)
     /\ Len(Split(tvValue, "/")) >= 3) =>
        LET parts == Split(tvValue, "/")
            first == parts[1]
            last == parts[Len(parts)]
            interior == SubSeq(parts, 2, Len(parts) - 1)
            budget == tvMaxWidth - Len(first) - Len(last) - 5
            run == LeadingRun(interior, budget)
        IN  IF Len(first) + Len(last) + 5 < tvMaxWidth
            THEN tvResult =
                    (IF run = 0 THEN first \o PathJoiner \o last
                     ELSE first \o << "/" >> \o Join(SubSeq(interior, 1, run), << "/" >>)
                          \o PathJoiner \o last)
            ELSE tvResult =
                    (IF HasPrefix(tvValue, << "{" >>) /\ HasSuffix(tvValue, << "}" >>)
                     THEN BraceTruncate(tvValue, tvMaxWidth)
                     ELSE IF HasPrefix(tvValue, << "[" >>) /\ HasSuffix(tvValue, << "]" >>)
                     THEN BracketTruncate(tvValue, tvMaxWidth)
                     ELSE IF tvMaxWidth > 6 THEN MiddleTruncate(tvValue, tvMaxWidth)
                     ELSE DefaultTruncate(tvValue, tvMaxWidth))

\* the value starts with open and ends with close
Delimited(v, open, close) ==
    HasPrefix(v, << open >>) /\ HasSuffix(v, << close >>)

(***************************************************************************)
(* C21: a value longer than maxWidth that is neither handled as a path nor *)
(* delimited by braces or brackets, with maxWidth > 6, is returned as its  *)
(* first h characters, "..." and its last h characters, where              *)
(* h = (maxWidth - 3) \div 2.                                              *)
(***************************************************************************)
C21_MiddleEllipsis ==
    (tvPc = "done" /\ Len(tvValue) > tvMaxWidth /\ tvMaxWidth > 6
     /\ ~PathApplies(tvValue, tvMaxWidth)
     /\ ~Delimited(tvValue, "{", "}") /\ ~Delimited(tvValue, "[", "]")) =>
        LET h == (tvMaxWidth - 3) \div 2
        IN  tvResult = SubSeq(tvValue, 1, h) \o Ellipsis
                       \o SubSeq(tvValue, Len(tvValue) - h + 1, Len(tvValue))

\* the claimed result for a value delimited by open and close: the opening
\* bracket, the maxWidth - 5 characters after it and "..." with the closing
\* bracket; the bare pair around "..." below width 5
DelimitedKeepsHead(v, maxWidth, open, close) ==
    IF maxWidth >= 5
    THEN << open >> \o SubSeq(v, 2, maxWidth - 4) \o Ellipsis \o << close >>
    ELSE << open >> \o Ellipsis \o << close >>

(***************************************************************************)
(* C22: a value longer than maxWidth that starts with "{" and ends with    *)
(* "}" (or "[" and "]") and is not handled by the path rule is returned,   *)
(* when maxWidth >= 5, as the opening bracket, the maxWidth - 5 characters *)
(* after it and "...}" (or "...]"); when maxWidth < 5 as the bare "{...}"  *)
(* (or "[...]").                                                           *)
(***************************************************************************)
C22_DelimitedKeepsHead ==
    (tvPc = "done" /\ Len(tvValue) > tvMaxWidth /\ ~PathApplies(tvValue, tvMaxWidth)) =>
        /\ Delimited(tvValue, "{", "}")
              => tvResult = DelimitedKeepsHead(tvValue, tvMaxWidth, "{", "}")
        /\ (~Delimited(tvValue, "{", "}") /\ Delimited(tvValue, "[", "]"))
              => tvResult = DelimitedKeepsHead(tvValue, tvMaxWidth, "[", "]")

(***************************************************************************)
(* More properties of processResourceChange (SpecNormalize).               *)
(***************************************************************************)
\* the address without its last two segments ".<type>.<name>"
ModulePath(address) ==
    LET parts == Split(address, ".")
    IN  IF Len(parts) > 2 THEN Join(SubSeq(parts, 1, Len(parts) - 2), << "." >>)
        ELSE << >>

(***************************************************************************)
(* C23: the Module of a normalized record is the address without its final *)
(* ".<type>.<name>" part when the address begins with "module."            *)
(* (module.m.aws_x.n gives "module.m"), and empty for every other address. *)
(***************************************************************************)
C23_ModuleIsPrefix ==
    (prPc = "done" /\ ~prResult.err) =>
        prResult.rc.Module =
            (IF HasPrefix(prResult.rc.Address, ModulePrefix)
             THEN ModulePath(prResult.rc.Address)
             ELSE << >>)

\* change.before or change.after of a raw record as a map: empty when the
\* field is absent, null or not a map
RawSide(raw, side) ==
    IF K_change \in DOMAIN raw /\ raw[K_change].k = "map"
    THEN AsMap(Get(raw[K_change].m, side))
    ELSE EmptyMap

\* every child of a nested map of the raw side has its entry "parent.child"
\* with the child's display string
FlattenedOneLevel(rawSide, values) ==
    \A parent \in DOMAIN rawSide :
        rawSide[parent].k = "map" =>
            \A child \in DOMAIN rawSide[parent].m :
                LET key == parent \o << "." >> \o child
                IN  /\ key \in DOMAIN values
                    /\ values[key] = SprintfV(rawSide[parent].m[child])

(***************************************************************************)
(* C24: a before/after attribute that is a nested map is flattened one     *)
(* level: BeforeValues/AfterValues hold one entry per child under the key  *)
(* "parent.child" (tags {Name: ...} gives "tags.Name") with the child's    *)
(* display string.                                                         *)
(***************************************************************************)
C24_NestedMapFlattened ==
    (prPc = "done" /\ ~prResult.err) =>
        /\ FlattenedOneLevel(RawSide(prRaw, K_before), prResult.rc.BeforeValues)
        /\ FlattenedOneLevel(RawSide(prRaw, K_after), prResult.rc.AfterValues)

\* the display string of a decoded value: a string as it is, any other value
\* as fmt prints it
DisplayString(j) == IF j.k = "str" THEN j.s ELSE SprintfV(j)

\* values has the keys of rawSide, each with the display string of its value
MirrorsSide(rawSide, values) ==
    /\ DOMAIN values = DOMAIN rawSide
    /\ \A key \in DOMAIN rawSide : values[key] = DisplayString(rawSide[key])

C26_MissingSideIsNone ==
    (pc = "done" /\ TheChange.ChangeType = Update) =>
        \A i \in TableRows :
            /\ out[i].cells[1] \notin DOMAIN TheChange.BeforeValues
                  => out[i].cells[2] = S_none
            /\ out[i].cells[1] \notin DOMAIN TheChange.AfterValues
                  => out[i].cells[3] = S_none
            /\ out[i].cells[2] # << >>
            /\ out[i].cells[3] # << >>

\* an update whose tags are on the new side only and whose ami is on the old
\* side only: one row with "(none)" as old value, one with "(none)" as new
C26_Witness ==
    /\ pc = "done"
    /\ TheChange.ChangeType = Update
    /\ DOMAIN TheChange.BeforeValues = { K_ami }
    /\ DOMAIN TheChange.AfterValues = { K_tags }
    /\ TheChange.BeforeValues[K_ami] = V_ami123
    /\ TheChange.AfterValues[K_tags] = V_ami456
    /\ \E i \in TableRows : out[i].cells = << K_ami, V_ami123, S_none >>
    /\ \E i \in TableRows : out[i].cells = << K_tags, S_none, V_ami456 >>

\* the positions of the lines of a sub-table
TableLines ==
    { i \in 1..Len(out) : out[i].t \in { "table_border", "table_header", "table_row" } }

\* the attribute column of the rows, from top to bottom
RowKeys ==
    LET rows == SelectSeq(out, LAMBDA line : line.t = "table_row")
    IN  [i \in 1..Len(rows) |-> rows[i].cells[1]]

\* the one resource line carries the address and the type of the resource
OneResourceLine ==
    /\ Cardinality(LinesOf("resource")) = 1
    /\ \A i \in LinesOf("resource") :
          out[i].address = TheChange.Address /\ out[i].type = TheChange.Type

\* one sub-table with the given columns
SubTableWith(cols) ==
    /\ Cardinality(LinesOf("table_header")) = 1
    /\ \A i \in LinesOf("table_header") : out[i].cols = cols
    /\ \A i \in TableRows : Len(out[i].cells) = Len(cols)

\* a Create resource has no sub-table; a Delete resource has the two-column
\* one with a row per key of BeforeValues in ascending order, none when
\* BeforeValues is empty
CreateAndDeleteTables ==
    /\ TheChange.ChangeType = Create => TableLines = {}
    /\ TheChange.ChangeType = Delete =>
          IF DOMAIN TheChange.BeforeValues = {} THEN TableLines = {}
          ELSE /\ SubTableWith(<< "ATTRIBUTE", "CURRENT VALUE (WILL BE DESTROYED)" >>)
               /\ RowKeys = SortStrings(DOMAIN TheChange.BeforeValues)

\* some attribute is on one side only or differs between the sides
SomeAttributeDiffers ==
    \E k \in DOMAIN TheChange.BeforeValues \cup DOMAIN TheChange.AfterValues :
        \/ k \notin DOMAIN TheChange.BeforeValues
        \/ k \notin DOMAIN TheChange.AfterValues
        \/ TheChange.BeforeValues[k] # TheChange.AfterValues[k]

(***************************************************************************)
(* C27 as stated: each listed resource is written as one line with its     *)
(* address and type; a Create resource gets no sub-table, an Update        *)
(* resource gets the three-column ATTRIBUTE / OLD VALUE / NEW VALUE        *)
(* sub-table, and a Delete resource gets a two-column sub-table with one   *)
(* row for every key of BeforeValues in sorted order, omitted only when    *)
(* BeforeValues is empty.                                                  *)
(***************************************************************************)
C27_SubTablePerKind_stated ==
    pc = "done" =>
        /\ OneResourceLine
        /\ CreateAndDeleteTables
        /\ TheChange.ChangeType = Update =>
              SubTableWith(<< "ATTRIBUTE", "OLD VALUE", "NEW VALUE" >>)

(***************************************************************************)
(* C27: as above, with the three-column sub-table of an Update resource    *)
(* written exactly when some attribute differs between BeforeValues and    *)
(* AfterValues; an Update without such an attribute has its line only.     *)
(***************************************************************************)
C27_SubTablePerKind ==
    pc = "done" =>
        /\ OneResourceLine
        /\ CreateAndDeleteTables
        /\ TheChange.ChangeType = Update =>
              IF SomeAttributeDiffers
              THEN SubTableWith(<< "ATTRIBUTE", "OLD VALUE", "NEW VALUE" >>)
              ELSE TableLines = {}

\* a Delete resource with ami and tags written with its two rows, and no
\* third column
C27_Witness ==
    /\ pc = "done"
    /\ TheChange.ChangeType = Delete
    /\ DOMAIN TheChange.BeforeValues = { K_ami, K_tags }
    /\ RowKeys = << K_ami, K_tags >>
    /\ \A i \in TableRows : Len(out[i].cells) = 2

(***************************************************************************)
(* Properties of the input checks of ParseFile and ParseJSON (Spec).       *)
(***************************************************************************)
\* the bytes hold one of the enumerated diagnostic texts
HasDiagnostic(data) == ContainsAny(data, ProviderErrorMarkers)

\* the bytes would fail the diagnostic check
IsDiagnosed(data) ==
    \/ HasDiagnostic(data)
    \/ Contains(data, S_Error) /\ ~Contains(data, << "{" >>)

\* the bytes are no JSON object by their first and last byte
LooksMalformed(data) ==
    LET trimmed == TrimSpace(data)
    IN  \/ trimmed = << >>
        \/ trimmed[1] # "{"
        \/ trimmed[Len(trimmed)] # "}"

\* the error the first failing check of the sequence gives
FirstFailure(data) ==
    IF data = << >> THEN ErrEmpty
    ELSE IF IsDiagnosed(data) THEN ErrProvider
    ELSE IF LooksMalformed(data) THEN ErrMalformed
    ELSE NoError

(***************************************************************************)
(* C28: ParseJSON and ParseFile run their checks in the order empty input, *)
(* diagnostic texts, structure, decoding; the first failing check gives    *)
(* the returned error and no later step runs.  A non-empty input with a    *)
(* diagnostic text gives the provider error, never a malformed-JSON or     *)
(* decoding error, and is never handed to the decoder.                     *)
(***************************************************************************)
C28_ChecksInOrder ==
    /\ (pc = "exited" /\ input.source = "memory") =>
          err = (IF FirstFailure(input.data) # NoError THEN FirstFailure(input.data)
                 ELSE ErrDecode)
    /\ (pc = "exited" /\ input.source = "file" /\ input.readable) =>
          err = FirstFailure(input.data)
    /\ pc = "Unmarshal" => FirstFailure(input.data) = NoError
    /\ (input.readable /\ HasDiagnostic(input.data)) =>
          /\ pc # "Unmarshal"
          /\ err \in { NoError, ErrProvider }
          /\ pc = "exited" => err = ErrProvider

\* the error output of Terraform read from stdin: it is no JSON object
\* either, and ParseJSON has returned the provider error
C28_Witness ==
    /\ pc = "exited"
    /\ input.source = "memory"
    /\ HasDiagnostic(input.data)
    /\ LooksMalformed(input.data)
    /\ input.decoded.err
    /\ err = ErrProvider
    /\ exitCode = 1

\* the input is the text of a JSON object with a resource_changes list that
\* the decoder accepts
IsPlanObject(in) ==
    /\ in.readable
    /\ ~in.decoded.err
    /\ HasPrefix(in.data, S_planOpen)
    /\ HasSuffix(in.data, << "]", "}" >>)

(***************************************************************************)
(* C29: the provider error is returned only for input that is no           *)
(* well-formed plan object: every input that is a valid JSON object with a *)
(* resource_changes list is decoded and aggregated, whatever strings its   *)
(* attribute values hold.                                                  *)
(***************************************************************************)
C29_ValidPlanParsed ==
    IsPlanObject(input) =>
        /\ err = NoError
        /\ exitCode # 1
        /\ pc \in { "main", "ParseJSON", "Unmarshal" }

\* the larger of two numbers
Max(a, b) == IF a >= b THEN a ELSE b

\* the number of characters in the columns of a line of a sub-table from
\* column i on: each column is padded to its width, a longer cell is written
\* in full, and each column adds two blanks and a border
RECURSIVE ColumnsWidth(_, _)
ColumnsWidth(line, i) ==
    IF i > Len(line.widths) THEN 0
    ELSE LET text == CASE line.t = "table_row" -> Len(line.cells[i])
                       [] line.t = "table_header" -> Len(line.cols[i])
                       [] OTHER -> 0
         IN  Max(text, line.widths[i]) + 3 + ColumnsWidth(line, i + 1)

\* the characters of a line of a sub-table: two of indent, the left border
\* and the columns
TableLineWidth(line) == 2 + 1 + ColumnsWidth(line, 1)

(***************************************************************************)
(* C30: with auto-detection and a terminal width MaxWidth with             *)
(* MaxWidth - 10 > 60, every line of the update and delete sub-tables      *)
(* (MaxAttributeWidth + 2 * MaxValueWidth + 12 characters when no cell     *)
(* overflows) is at most MaxWidth characters wide.                         *)
(***************************************************************************)
C30_TableFitsTerminal ==
    (pc = "done" /\ renderer.config.AutoDetectWidth
     /\ renderer.config.MaxWidth - 10 > 60) =>
        \A i \in TableLines :
            /\ TableLineWidth(out[i]) <= renderer.config.MaxWidth
            /\ (\A k \in 1..Len(out[i].widths) :
                   out[i].t = "table_row" => Len(out[i].cells[k]) <= out[i].widths[k])
                  => TableLineWidth(out[i]) =
                        renderer.tableConfig.MaxAttributeWidth
                        + 2 * renderer.tableConfig.MaxValueWidth + 12

============================================================================
